---- MODULE Spec2Model ----
(***************************************************************************)
(* A model of the site collectors of greyhoundforty/kylfuskofu:            *)
(*   src/random_site.py   collect_five_unique_sites   (one source)         *)
(*   src/app.py           collect_ten_unique_sites    (two sources)        *)
(*   src/utils.py         collect_unique_sites_enhanced (512kb loop with   *)
(*                        English detection, Hacker News, indie blogs)     *)
(* together with the sites table they write and the helpers they call.     *)
(*                                                                         *)
(* The three copies of the collection loop differ in two literals, the     *)
(* number of sites wanted and the attempt budget (10/10, 5/15, 10/20).     *)
(* The model keeps them in the variables target and max_attempts and runs  *)
(* the loop for every target within MaxTarget, the budget in the ratio of  *)
(* the collector's literals (1, 3 and 2 times the target); the batches of  *)
(* the enhanced collector ask for half the target, as 5 is of 10.          *)
(*                                                                         *)
(* A behaviour is one run of one collector on a table that earlier runs    *)
(* have filled, followed by any number of analysis passes                  *)
(* (analyze_existing_sites_for_english).  The helpers the collectors call  *)
(* are also run on their own, each in a specification of its own (SpecHN,  *)
(* SpecLinkwarden, SpecTitles, SpecClassify, SpecOracle), the loop on a    *)
(* patched adapter in SpecScenario, and two runs of app.py at once on one  *)
(* table in SpecConcurrent.                                                *)
(*                                                                         *)
(* The database is taken to be reachable: a statement fails only through   *)
(* the UNIQUE constraint on sites.url.                                     *)
(***************************************************************************)
EXTENDS Integers, Sequences, FiniteSets, TLC

VARIABLES
    sites,                    \* the rows of table sites, in insertion (id) order
    variant,                  \* which collector runs: "random_site", "app", "enhanced", "cos"
    url_exists_func,          \* enhanced: is an existence function passed (FALSE: None)
    add_url_to_db_func,       \* enhanced: is an insert function passed (FALSE: None)
    target,                   \* sites wanted per source (the literal of the loop guard)
    max_attempts,             \* attempt budget per source
    pc,                       \* position of the run
    source,                   \* index into Sources(variant) of the source being collected
    unique_sites_collected,
    attempts,
    collected_sites,          \* list of (url, title, source) of the run
    sites_512kb_english,      \* enhanced: the accepted sites classified English
    show_stories,             \* enhanced: get_hackernews_stories_by_type("show", ...)
    new_stories,              \* enhanced: get_hackernews_stories_by_type("new", ...)
    indie_posts,              \* enhanced: posts of get_reduced_indieblog_posts
    indie_attempts,           \* enhanced: attempts of get_reduced_indieblog_posts
    todo,                     \* enhanced: tuples still to be inserted by the current for loop
    webhook,                  \* result of send_discord_webhook in this run: "none", "sent", "failed"
    \* ---- observers (history of the current source's loop; not read by the program)
    iters,                    \* loop bodies executed for the current source
    inserts,                  \* rows inserted for the current source
    fresh,                    \* candidates fetched for the current source that were not in the store
    all_dup,                  \* every iteration so far fetched a candidate that was in the store
    sites0,                   \* the store when the current source's loop began
    \* ---- a patched adapter, as in tests/test_integration.py (side_effect=[...])
    mocked,                   \* the adapter is patched with a list of results
    script,                   \* the results the patched adapter has yet to return
    fetched,                  \* the results the patched adapter has returned to the current loop
    \* ---- input and output of the helper under test (the function specifications)
    inp,
    out,
    \* ---- two runs of collect_ten_unique_sites at once on one table: the locals of each
    runs

vars == <<sites, variant, url_exists_func, add_url_to_db_func, target, max_attempts,
          pc, source, unique_sites_collected, attempts, collected_sites,
          sites_512kb_english, show_stories, new_stories, indie_posts, indie_attempts,
          todo, webhook, iters, inserts, fresh, all_dup, sites0, mocked, script, fetched,
          inp, out, runs>>

\* fixed by the invocation
cfgv == <<variant, url_exists_func, add_url_to_db_func, target, max_attempts, mocked>>
\* the locals of the current source's while loop
loopv == <<unique_sites_collected, attempts>>
\* the locals of the enhanced collector's later phases
enhv == <<show_stories, new_stories, indie_posts, indie_attempts, todo>>
obsv == <<iters, inserts, fresh, all_dup, sites0>>
\* what no step of a single collector run touches
iov == <<inp, out, runs>>

\* ------------------------------------------------------------------ bounds

NumUrls == 2
MaxTarget == 2
MaxScript == 3
MaxIds == 3
MaxLinks == 3
MaxPad == 50
MaxTail == 3
MaxLang == 3
MaxRows == 5
MaxCount == 2

\* ------------------------------------------------------------------ values

\* SQL NULL / Python None for a nullable column: <<>>, a value v: <<v>>.
None == <<>>
Some(v) == <<v>>

Min(a, b) == IF a < b THEN a ELSE b

AllUrls == <<"https://a.example", "https://b.example", "https://c.example",
             "https://d.example", "https://e.example", "https://f.example">>
Urls == {AllUrls[i] : i \in 1..NumUrls}

\* The document title the browser reads at a URL.
TitleOf(url) ==
    CASE url = "https://a.example" -> "A"
      [] url = "https://b.example" -> "B"
      [] url = "https://c.example" -> "C"
      [] OTHER -> "T"

Sources(v) ==
    CASE v = "random_site" -> <<None>>
      [] v = "app" -> <<Some("512kb.club"), Some("indieblog.page")>>
      [] OTHER -> <<Some("512kb.club")>>

\* ------------------------------------------------------------------ the store

\* SELECT 1 FROM sites WHERE url = ?; fetchone() is not None.  The connection is
\* closed without a commit: the operator also gives the table the call leaves.
url_exists_upsert(db, url) ==
    [ret |-> \E i \in 1..Len(db) : db[i].url = url,
     db |-> IF \E i \in 1..Len(db) : db[i].url = url THEN db
            ELSE Append(db, [url |-> url, title |-> "", source |-> None, capture_date |-> Len(db) + 1,
                             has_blog |-> None, blog_status |-> None,
                             blog_posts_md |-> None, last_blog_check |-> None])]

url_exists(db, url) ==
    [ret |-> \E i \in 1..Len(db) : db[i].url = url,
     db |-> db]

\* datetime.now() is read as a logical clock, the number of rows committed so far:
\* a row's capture_date is its rank of insertion.
\* INSERT INTO sites (url, title, source, capture_date) VALUES (...); commit.
\* url is declared TEXT UNIQUE: the insert of a url the table holds raises
\* IntegrityError and changes nothing.
add_url_to_db_no_unique(db, url, title, src) ==
    [raised |-> FALSE,
     db |-> Append(db, [url |-> url, title |-> title, source |-> src, capture_date |-> Len(db) + 1,
                        has_blog |-> None, blog_status |-> None,
                        blog_posts_md |-> None, last_blog_check |-> None])]

add_url_to_db(db, url, title, src) ==
    IF \E i \in 1..Len(db) : db[i].url = url
    THEN [raised |-> TRUE, db |-> db]
    ELSE [raised |-> FALSE,
          db |-> Append(db, [url |-> url, title |-> title, source |-> src, capture_date |-> Len(db) + 1,
                             has_blog |-> None, blog_status |-> None,
                             blog_posts_md |-> None, last_blog_check |-> None])]

\* init_database of app.py, at the head of collect_ten_unique_sites, on a table that
\* exists: if the table has no source column, ALTER TABLE sites ADD COLUMN source TEXT
\* and UPDATE sites SET source = '512kb.club' WHERE source IS NULL.  Every insert of
\* app.py gives a source, so the rows without one are exactly the rows of a table that
\* has no such column (the table random_site.py creates and fills).  random_site.py's
\* own init_database is CREATE TABLE IF NOT EXISTS; the enhanced collector calls none.
init_database(v, db) ==
    IF v = "app"
    THEN [i \in 1..Len(db) |->
             IF db[i].source = None THEN [db[i] EXCEPT !.source = Some("512kb.club")]
             ELSE db[i]]
    ELSE db

\* UPDATE sites SET has_blog = ?, blog_status = ?, blog_posts_md = ?, last_blog_check = ?
\* WHERE url = ?
update_site_english_status_every_row(db, url, is_english, status, posts_md) ==
    [i \in 1..Len(db) |->
        [db[i] EXCEPT !.has_blog = Some(is_english), !.blog_status = Some(status),
                      !.blog_posts_md = posts_md, !.last_blog_check = Some(Len(db))]]

update_site_english_status(db, url, is_english, status, posts_md) ==
    [i \in 1..Len(db) |->
        IF db[i].url = url
        THEN [db[i] EXCEPT !.has_blog = Some(is_english), !.blog_status = Some(status),
                           !.blog_posts_md = posts_md, !.last_blog_check = Some(Len(db))]
        ELSE db[i]]

\* ------------------------------------------------------------------ adapters

Failure == [ok |-> FALSE, url |-> "", title |-> ""]

\* What one call of get_random_site / get_random_indieblog gives: a (url, title)
\* pair, or an exception (navigation timeout, selector miss, page-load timeout).
FetchResults == {Failure} \cup {[ok |-> TRUE, url |-> u, title |-> TitleOf(u)] : u \in Urls}

\* The call of the adapter in the loop body gives cand.  A patched adapter returns
\* the next result of its list and raises StopIteration once the list is used up.
Fetch(cand) ==
    IF mocked
    THEN /\ cand = IF script = <<>> THEN Failure ELSE Head(script)
         /\ script' = IF script = <<>> THEN script ELSE Tail(script)
         /\ fetched' = Append(fetched, cand)
    ELSE /\ script' = script
         /\ fetched' = fetched

\* ------------------------------------------------------------------ the collection loop

\* The attempt budget of each collector for a target of sites:
\* 10 for 10 (random_site.py), 15 for 5 (app.py), 20 for 10 (utils.py).
BudgetRatio(v) ==
    CASE v = "random_site" -> 1
      [] v = "app" -> 3
      [] OTHER -> 2

\* while unique_sites_collected < N and attempts < max_attempts
LoopGuardNoTarget(collected, att, tgt, budget) == att < budget

LoopGuard(collected, att, tgt, budget) == collected < tgt /\ att < budget

\* attempts += 1: after the try statement (random_site.py, app.py) or at the head of
\* the body (utils.py), so on every path of the body
AttemptsAfterOnlyOnSuccess(att, fetch_ok) == IF fetch_ok THEN att + 1 ELSE att

AttemptsAfter(att, fetch_ok) == att + 1

\* unique_sites_collected += 1, in the branch of a new url, after its insert
CollectedAfterAlways(n, accepted) == n + 1

CollectedAfter(n, accepted) == IF accepted THEN n + 1 ELSE n

InStore(db, url) == \E i \in 1..Len(db) : db[i].url = url

UrlsOf(db) == {db[i].url : i \in 1..Len(db)}

Observe(cand) ==
    /\ iters' = iters + 1
    /\ inserts' = inserts + (Len(sites') - Len(sites))
    /\ fresh' = IF cand.ok /\ ~InStore(sites, cand.url) THEN fresh + 1 ELSE fresh
    /\ all_dup' = (all_dup /\ cand.ok /\ InStore(sites, cand.url))
    /\ sites0' = sites0

ResetLoopOn(db) ==
    /\ unique_sites_collected' = 0
    /\ attempts' = 0
    /\ iters' = 0
    /\ inserts' = 0
    /\ fresh' = 0
    /\ all_dup' = TRUE
    /\ fetched' = <<>>
    /\ sites0' = db

ResetLoop == ResetLoopOn(sites)

\* One body of the while loop of collect_five_unique_sites (random_site.py) and of
\* collect_ten_unique_sites (app.py): fetch, check, insert, count; any exception of
\* the try body is caught and logged.
CollectIteration(cand) ==
    /\ pc = "loop"
    /\ variant \in {"random_site", "app"}
    /\ LoopGuard(unique_sites_collected, attempts, target, max_attempts)
    /\ Fetch(cand)
    /\ LET src == Sources(variant)[source]
           e == url_exists(sites, cand.url)
           isNew == cand.ok /\ ~e.ret
           r == add_url_to_db(e.db, cand.url, cand.title, src)
           accepted == isNew /\ ~r.raised
       IN  /\ sites' = IF ~cand.ok THEN sites ELSE IF isNew THEN r.db ELSE e.db
           /\ collected_sites' =
                  IF accepted THEN Append(collected_sites, <<cand.url, cand.title, src>>)
                  ELSE collected_sites
           /\ unique_sites_collected' = CollectedAfter(unique_sites_collected, accepted)
           /\ attempts' = AttemptsAfter(attempts, cand.ok)
           /\ Observe(cand)
    /\ UNCHANGED <<cfgv, enhv, iov, pc, source, sites_512kb_english, webhook>>

\* The three returns of check_512kb_site_is_english(url, title).
ClassifierResults(url, title) ==
    {[is_english |-> TRUE, posts_md |-> Some(<<title, url>>), status |-> "english_site"],
     [is_english |-> FALSE, posts_md |-> None, status |-> "non_english"],
     [is_english |-> FALSE, posts_md |-> None, status |-> "error"]}

\* One body of the 512kb while loop of collect_unique_sites_enhanced.
KbIteration(cand, cls) ==
    /\ pc = "loop"
    /\ variant = "enhanced"
    /\ LoopGuard(unique_sites_collected, attempts, target, max_attempts)
    /\ Fetch(cand)
    /\ LET e == url_exists(sites, cand.url)
           isNew == cand.ok /\ (~url_exists_func \/ ~e.ret)
           db1 == IF cand.ok /\ url_exists_func THEN e.db ELSE sites
           r == add_url_to_db(db1, cand.url, cand.title, Some("512kb.club"))
           raised == isNew /\ add_url_to_db_func /\ r.raised
           inserted == isNew /\ add_url_to_db_func /\ ~r.raised
           accepted == isNew /\ ~raised
           tuple == <<cand.url, cand.title, Some("512kb.club")>>
       IN  /\ sites' = IF inserted
                        THEN update_site_english_status(r.db, cand.url, cls.is_english,
                                                        cls.status, cls.posts_md)
                        ELSE db1
           /\ collected_sites' =
                  IF accepted THEN Append(collected_sites, tuple) ELSE collected_sites
           /\ sites_512kb_english' =
                  IF accepted /\ cls.is_english THEN Append(sites_512kb_english, tuple)
                  ELSE sites_512kb_english
           /\ unique_sites_collected' = CollectedAfter(unique_sites_collected, accepted)
           /\ attempts' = AttemptsAfter(attempts, cand.ok)
           /\ Observe(cand)
    /\ UNCHANGED <<cfgv, enhv, iov, pc, source, webhook>>

\* The while loop has ended for the current source: the next source, or the run's
\* next phase.
LoopExit ==
    /\ pc = "loop"
    /\ ~LoopGuard(unique_sites_collected, attempts, target, max_attempts)
    /\ IF source < Len(Sources(variant))
       THEN /\ source' = source + 1
            /\ ResetLoop
            /\ pc' = "loop"
       ELSE /\ pc' = IF variant = "enhanced" THEN "hn_show" ELSE "webhook"
            /\ UNCHANGED <<source, loopv, obsv, fetched>>
    /\ UNCHANGED <<sites, cfgv, enhv, iov, collected_sites, sites_512kb_english, webhook,
                   script>>

\* if collected_sites: send_discord_webhook(collected_sites).  The post succeeds, or
\* fails (no DISCORD_WEBHOOK_URL, a network error, a non-2xx answer) and returns False.
NotifyWithRetry ==
    /\ pc = "webhook"
    /\ IF collected_sites = <<>>
       THEN webhook' = "none" /\ pc' = "idle"
       ELSE \/ webhook' = "sent" /\ pc' = "idle"
            \/ webhook' = "failed" /\ pc' = IF webhook = "failed" THEN "idle" ELSE "webhook"
    /\ UNCHANGED <<sites, cfgv, loopv, enhv, obsv, iov, source, collected_sites,
                   sites_512kb_english, script, fetched>>

Notify ==
    /\ pc = "webhook"
    /\ IF collected_sites = <<>>
       THEN webhook' = "none"
       ELSE webhook' \in {"sent", "failed"}
    /\ pc' = "idle"
    /\ UNCHANGED <<sites, cfgv, loopv, enhv, obsv, iov, source, collected_sites,
                   sites_512kb_english, script, fetched>>

\* The collector is invoked on the store as earlier runs left it; app.py begins with
\* init_database().
StartRun ==
    /\ pc = "new"
    /\ sites' = init_database(variant, sites)
    /\ pc' = "loop"
    /\ source' = 1
    /\ ResetLoopOn(init_database(variant, sites))
    /\ collected_sites' = <<>>
    /\ sites_512kb_english' = <<>>
    /\ show_stories' = <<>>
    /\ new_stories' = <<>>
    /\ indie_posts' = <<>>
    /\ indie_attempts' = 0
    /\ todo' = <<>>
    /\ webhook' = "none"
    /\ UNCHANGED <<cfgv, iov, script>>

\* ------------------------------------------------------------------ Hacker News

HnItemUrls == <<"https://news.ycombinator.com/item?id=1",
                "https://news.ycombinator.com/item?id=2",
                "https://news.ycombinator.com/item?id=3",
                "https://news.ycombinator.com/item?id=4",
                "https://news.ycombinator.com/item?id=5",
                "https://news.ycombinator.com/item?id=6",
                "https://news.ycombinator.com/item?id=7",
                "https://news.ycombinator.com/item?id=8">>

\* What GET /v0/item/<id>.json gives for one id: a failed request or a null body
\* (ok FALSE), or a JSON object whose "url" and "title" keys are absent (None) or
\* present (Some(text), the text possibly empty).
HnItemsOver(urls) ==
    {[ok |-> FALSE, url |-> None, title |-> None]}
        \cup {[ok |-> TRUE, url |-> u, title |-> t] :
                 u \in {None, Some("")} \cup {Some(x) : x \in urls},
                 t \in {None, Some(""), Some("Story")}}

HnItems == HnItemsOver(Urls)

\* Python truthiness of dict.get(key): absent (None) and "" are falsy.
Truthy(opt) == opt # None /\ opt # Some("")

\* get_hackernews_story_details(story_id): the story, or None after an error, a
\* null body, or when "url" or "title" is not a key of the story.
get_hackernews_story_details(item) ==
    IF ~item.ok \/ item.url = None \/ item.title = None THEN None ELSE Some(item)

\* The for loop of get_hackernews_stories_by_type over story_ids, from position i,
\* with the stories gathered so far.  exists is the set of urls url_exists_func
\* reports present, hasFunc whether url_exists_func is not None.
RECURSIVE HnLoop(_, _, _, _, _, _, _)
HnLoop(items, i, count, hasFunc, exists, src, stories) ==
    IF i > Len(items) \/ Len(stories) >= count
    THEN stories
    ELSE LET d == get_hackernews_story_details(items[i])
         IN  IF d = None
             THEN HnLoop(items, i + 1, count, hasFunc, exists, src, stories)
             ELSE LET story == d[1]
                      url == IF Truthy(story.url) THEN story.url[1] ELSE HnItemUrls[i]
                      keep == Truthy(story.title) /\ (~hasFunc \/ url \notin exists)
                  IN  HnLoop(items, i + 1, count, hasFunc, exists, src,
                             IF keep THEN Append(stories, <<url, story.title[1], src>>)
                             ELSE stories)

\* story_ids = response.json()[: count * 2]
TakeIdsCountOnly(items, count) ==
    SubSeq(items, 1, IF Len(items) < count THEN Len(items) ELSE count)

TakeIds(items, count) ==
    SubSeq(items, 1, IF Len(items) < count * 2 THEN Len(items) ELSE count * 2)

\* get_hackernews_stories_by_type(story_type, count, url_exists_func) on a listing
\* [ok, items]: items[i] is what the item request of the listing's i-th id gives.
get_hackernews_stories_by_type(story_type, listing, count, hasFunc, exists) ==
    IF story_type \notin {"show", "new", "top"} \/ ~listing.ok
    THEN <<>>
    ELSE HnLoop(TakeIds(listing.items, count), 1, count, hasFunc, exists,
                Some("hackernews-" \o story_type), <<>>)

SeqsUpTo(S, n) == UNION {[1..k -> S] : k \in 0..n}

HnListings(n) ==
    {[ok |-> FALSE, items |-> <<>>]} \cup {[ok |-> TRUE, items |-> q] : q \in SeqsUpTo(HnItems, n)}

\* ------------------------------------------------------------------ the enhanced collector's batches

\* The batches ask for 5 stories of each listing and 5 posts where the 512kb loop
\* asks for 10 sites: half the target, whatever the target is.
BatchCount(tgt) == tgt \div 2

\* show_stories = get_hackernews_stories_by_type("show", 5, url_exists_func).  The
\* 512kb loop's counters were read for the last time by the log line after the loop
\* and sites_512kb_english by generate_simple_512kb_markdown.
HnFetchShow(listing) ==
    /\ pc = "hn_show"
    /\ show_stories' = get_hackernews_stories_by_type("show", listing, BatchCount(target),
                                                       url_exists_func, UrlsOf(sites))
    /\ pc' = "hn_new"
    /\ unique_sites_collected' = 0
    /\ attempts' = 0
    /\ sites_512kb_english' = <<>>
    /\ iters' = 0
    /\ inserts' = 0
    /\ fresh' = 0
    /\ all_dup' = TRUE
    /\ UNCHANGED <<sites, cfgv, iov, source, collected_sites, new_stories, indie_posts,
                   indie_attempts, todo, webhook, script, fetched, sites0>>

\* new_stories = get_hackernews_stories_by_type("new", 5, url_exists_func), and the
\* entry of "for url, title, source in show_stories + new_stories" when an insert
\* function was passed.
HnFetchNew(listing) ==
    /\ pc = "hn_new"
    /\ new_stories' = get_hackernews_stories_by_type("new", listing, BatchCount(target),
                                                      url_exists_func, UrlsOf(sites))
    /\ todo' = IF add_url_to_db_func THEN show_stories \o new_stories' ELSE <<>>
    /\ pc' = "hn_insert"
    /\ UNCHANGED <<sites, cfgv, loopv, obsv, iov, source, collected_sites,
                   sites_512kb_english, show_stories, indie_posts, indie_attempts,
                   webhook, script, fetched>>

\* One add_url_to_db_func(url, title, source) of a for loop over a fetched batch.
\* The call is not inside a try statement: IntegrityError leaves the collector.
BatchInsert ==
    /\ pc \in {"hn_insert", "indie_insert"}
    /\ todo # <<>>
    /\ LET t == Head(todo)
           r == add_url_to_db(sites, t[1], t[2], t[3])
       IN  /\ sites' = r.db
           /\ pc' = IF r.raised THEN "raised" ELSE pc
           /\ todo' = Tail(todo)
    /\ UNCHANGED <<cfgv, loopv, obsv, iov, source, collected_sites, sites_512kb_english,
                   show_stories, new_stories, indie_posts, indie_attempts, webhook,
                   script, fetched>>

\* collected_sites.extend(show_stories + new_stories); the two lists are read for
\* the last time by generate_hackernews_markdown, which follows at once.
HnDone ==
    /\ pc = "hn_insert"
    /\ todo = <<>>
    /\ collected_sites' = collected_sites \o show_stories \o new_stories
    /\ show_stories' = <<>>
    /\ new_stories' = <<>>
    /\ pc' = "indie"
    /\ UNCHANGED <<sites, cfgv, loopv, obsv, iov, source, sites_512kb_english,
                   indie_posts, indie_attempts, todo, webhook, script, fetched>>

\* One body of the while loop of get_reduced_indieblog_posts(5, url_exists_func);
\* max_attempts = count * 3.
IndieIteration(cand) ==
    /\ pc = "indie"
    /\ Len(indie_posts) < BatchCount(target) /\ indie_attempts < BatchCount(target) * 3
    /\ indie_posts' =
          IF cand.ok /\ (~url_exists_func \/ ~url_exists(sites, cand.url).ret)
          THEN Append(indie_posts, <<cand.url, cand.title, Some("indieblog.page")>>)
          ELSE indie_posts
    /\ indie_attempts' = indie_attempts + 1
    /\ UNCHANGED <<sites, cfgv, loopv, obsv, iov, pc, source, collected_sites,
                   sites_512kb_english, show_stories, new_stories, todo, webhook,
                   script, fetched>>

\* return posts[:count], which ends the function's own attempts counter, and the
\* entry of "for url, title, source in indie_posts".
IndieReturn ==
    /\ pc = "indie"
    /\ ~(Len(indie_posts) < BatchCount(target) /\ indie_attempts < BatchCount(target) * 3)
    /\ indie_posts' = SubSeq(indie_posts, 1,
                              IF Len(indie_posts) < BatchCount(target) THEN Len(indie_posts)
                              ELSE BatchCount(target))
    /\ todo' = IF add_url_to_db_func THEN indie_posts' ELSE <<>>
    /\ indie_attempts' = 0
    /\ pc' = "indie_insert"
    /\ UNCHANGED <<sites, cfgv, loopv, obsv, iov, source, collected_sites,
                   sites_512kb_english, show_stories, new_stories, webhook, script,
                   fetched>>

\* collected_sites.extend(indie_posts); return collected_sites, final_markdown
IndieDone ==
    /\ pc = "indie_insert"
    /\ todo = <<>>
    /\ collected_sites' = collected_sites \o indie_posts
    /\ indie_posts' = <<>>
    /\ pc' = "idle"
    /\ UNCHANGED <<sites, cfgv, loopv, obsv, iov, source, sites_512kb_english,
                   show_stories, new_stories, indie_attempts, todo, webhook, script,
                   fetched>>

\* ------------------------------------------------------------------ the analysis pass

\* SELECT url, title FROM sites WHERE source = '512kb.club'
\* AND (has_blog IS NULL OR last_blog_check IS NULL) LIMIT ?, in the table's order.
get_sites_needing_english_check_any_source(db, limit) ==
    LET need == SelectSeq(db, LAMBDA row : row.has_blog = None \/ row.last_blog_check = None)
    IN  [k \in 1..Min(Len(need), limit) |-> <<need[k].url, need[k].title>>]

get_sites_needing_english_check_checked_too(db, limit) ==
    LET need == SelectSeq(db, LAMBDA row : row.source = Some("512kb.club"))
    IN  [k \in 1..Min(Len(need), limit) |-> <<need[k].url, need[k].title>>]

get_sites_needing_english_check(db, limit) ==
    LET need == SelectSeq(db, LAMBDA row :
                    /\ row.source = Some("512kb.club")
                    /\ (row.has_blog = None \/ row.last_blog_check = None))
    IN  [k \in 1..Min(Len(need), limit) |-> <<need[k].url, need[k].title>>]

\* analyze_existing_sites_for_english(limit=50), called after a run has ended (or
\* after an earlier pass): sites_to_analyze = get_sites_needing_english_check(limit).
\* Nothing of the ended run is left but the table.
AnalyzeStart ==
    /\ pc \in {"idle", "raised", "analyzed"}
    /\ todo' = get_sites_needing_english_check(sites, 50)
    /\ pc' = "analysis"
    /\ source' = 1
    /\ collected_sites' = <<>>
    /\ sites_512kb_english' = <<>>
    /\ show_stories' = <<>>
    /\ new_stories' = <<>>
    /\ indie_posts' = <<>>
    /\ indie_attempts' = 0
    /\ webhook' = "none"
    /\ ResetLoop
    /\ UNCHANGED <<sites, cfgv, iov, script>>

\* What the classifier can return for the site the pass has come to.
AnalysisResults ==
    IF todo = <<>> THEN {} ELSE ClassifierResults(Head(todo)[1], Head(todo)[2])

\* One body of the pass's for loop: check_512kb_site_is_english(url, title) and
\* update_site_english_status(url, is_english, status, posts_md).  The except branch
\* stores (False, "error"), which is also what the classifier's own error result
\* stores.
AnalyzeSite(cls) ==
    /\ pc = "analysis"
    /\ todo # <<>>
    /\ sites' = update_site_english_status(sites, Head(todo)[1], cls.is_english,
                                           cls.status, cls.posts_md)
    /\ todo' = Tail(todo)
    /\ UNCHANGED <<cfgv, loopv, obsv, iov, pc, source, collected_sites,
                   sites_512kb_english, show_stories, new_stories, indie_posts,
                   indie_attempts, webhook, script, fetched>>

AnalyzeDone ==
    /\ pc = "analysis"
    /\ todo = <<>>
    /\ pc' = "analyzed"
    /\ UNCHANGED <<sites, cfgv, loopv, enhv, obsv, iov, source, collected_sites,
                   sites_512kb_english, webhook, script, fetched>>

\* ------------------------------------------------------------------ the collectors' specification

\* The tables earlier runs can have left: rows of distinct urls, written by
\* add_url_to_db with the collector's first source tag; app.py can also come upon a
\* table written without a source column.
RECURSIVE RowsOf(_, _)
RowsOf(urls, src) ==
    IF urls = <<>> THEN <<>>
    ELSE add_url_to_db(RowsOf(SubSeq(urls, 1, Len(urls) - 1), src),
                       urls[Len(urls)], TitleOf(urls[Len(urls)]), src).db

Injective(q) == \A i, j \in 1..Len(q) : q[i] = q[j] => i = j

Stores(src) == {RowsOf(SubSeq(AllUrls, 1, k), src) : k \in 0..NumUrls}

\* Nothing of a run exists before the collector is invoked.
NoRun ==
    /\ pc = "new"
    /\ source = 1
    /\ unique_sites_collected = 0
    /\ attempts = 0
    /\ collected_sites = <<>>
    /\ sites_512kb_english = <<>>
    /\ show_stories = <<>>
    /\ new_stories = <<>>
    /\ indie_posts = <<>>
    /\ indie_attempts = 0
    /\ todo = <<>>
    /\ webhook = "none"
    /\ iters = 0
    /\ inserts = 0
    /\ fresh = 0
    /\ all_dup = TRUE
    /\ fetched = <<>>

Init ==
    /\ variant \in {"random_site", "app", "enhanced"}
    /\ url_exists_func \in BOOLEAN
    /\ add_url_to_db_func \in BOOLEAN
    /\ (variant # "enhanced" => url_exists_func /\ add_url_to_db_func)
    /\ target \in 1..MaxTarget
    /\ max_attempts = BudgetRatio(variant) * target
    /\ sites \in Stores(Sources(variant)[1])
                  \cup (IF variant = "app" THEN Stores(None) ELSE {})
    /\ sites0 = sites
    /\ mocked = FALSE
    /\ script = <<>>
    /\ NoRun
    /\ inp = None
    /\ out = None
    /\ runs = <<>>

Next ==
    \/ StartRun
    \/ \E cand \in FetchResults : CollectIteration(cand)
    \/ \E cand \in FetchResults :
          \E cls \in ClassifierResults(cand.url, cand.title) : KbIteration(cand, cls)
    \/ LoopExit
    \/ Notify
    \/ \E listing \in HnListings(BatchCount(target)) : HnFetchShow(listing)
    \/ \E listing \in HnListings(BatchCount(target)) : HnFetchNew(listing)
    \/ BatchInsert
    \/ HnDone
    \/ \E cand \in FetchResults : IndieIteration(cand)
    \/ IndieReturn
    \/ IndieDone
    \/ AnalyzeStart
    \/ \E cls \in AnalysisResults : AnalyzeSite(cls)
    \/ AnalyzeDone

Spec == Init /\ [][Next]_vars

\* ------------------------------------------------------------------ properties of the collectors

\* C1 (uniqueness): whatever the collectors fetch from whatever source, and whether
\* or not a fetch fails, no two rows of the sites table have the same url.
Uniqueness == \A i, j \in 1..Len(sites) : sites[i].url = sites[j].url => i = j

\* A run has inserted rows, and then an insert of a url that is already stored was
\* refused with IntegrityError.
UniquenessRefusedInsert == pc = "raised" /\ Len(sites) > Len(sites0)

\* C2 (attempt-bounded termination): every body of a source's while loop, whether its
\* fetch failed, gave a duplicate or gave a new site, adds exactly one to attempts, and
\* no more than max_attempts bodies are run for a source.
AttemptBounded == iters = attempts /\ iters <= max_attempts

\* A loop has used up its budget before reaching its target, having met a new site
\* and a candidate that was no new site on the way.
AttemptBudgetUsedUp ==
    /\ pc = "loop"
    /\ attempts = max_attempts
    /\ unique_sites_collected < target
    /\ fresh > 0
    /\ fresh < iters

\* C3 (all duplicates): when a source's loop has run max_attempts bodies and each of
\* them fetched a candidate that was in the store, the loop has accepted nothing and
\* inserted nothing, the store is as it was when the loop began, no exception has
\* left the loop, and the loop is at its exit.
AllDuplicatesNothingAccepted ==
    (all_dup /\ iters = max_attempts)
        => /\ unique_sites_collected = 0
           /\ inserts = 0
           /\ sites = sites0
           /\ pc # "raised"
           /\ (pc = "loop"
                  => ~LoopGuard(unique_sites_collected, attempts, target, max_attempts))

\* A loop with a budget of several attempts has spent all of them on stored urls.
AllDuplicatesBudgetSpent ==
    pc = "loop" /\ all_dup /\ iters = max_attempts /\ max_attempts > 1

\* ------------------------------------------------------------------ the loop on a scripted adapter

\* The collectors as tests/test_integration.py runs them: get_random_site patched
\* with a list of results, the existence and insert functions bound to the store.
\* The budget is 5 attempts for every target.
InitScenario ==
    /\ variant \in {"random_site", "app", "enhanced"}
    /\ url_exists_func = TRUE
    /\ add_url_to_db_func = TRUE
    /\ target \in 1..MaxTarget
    /\ max_attempts = 5
    /\ sites \in Stores(Sources(variant)[1])
    /\ sites0 = sites
    /\ mocked = TRUE
    /\ script \in SeqsUpTo(FetchResults, MaxScript)
    /\ NoRun
    /\ inp = None
    /\ out = None
    /\ runs = <<>>

NextScenario ==
    \/ StartRun
    \/ \E cand \in FetchResults : CollectIteration(cand)
    \/ \E cand \in FetchResults :
          \E cls \in ClassifierResults(cand.url, cand.title) : KbIteration(cand, cls)
    \/ LoopExit
    \/ Notify

SpecScenario == InitScenario /\ [][NextScenario]_vars

\* The results the patched adapter was set up to return to the current loop.
Scripted == fetched \o script

CandA == [ok |-> TRUE, url |-> "https://a.example", title |-> "A"]

CandB == [ok |-> TRUE, url |-> "https://b.example", title |-> "B"]

\* The first loop of a run whose store held https://a.example alone, whose adapter
\* returns (https://a.example, A), then (https://b.example, B), with target 1.
ScenarioAB ==
    /\ source = 1
    /\ pc # "new"
    /\ target = 1
    /\ max_attempts = 5
    /\ UrlsOf(sites0) = {"https://a.example"}
    /\ Len(Scripted) >= 2
    /\ Scripted[1] = CandA
    /\ Scripted[2] = CandB

\* C4 (stop at the target): in the scenario the first candidate is rejected (after one
\* attempt nothing is accepted and the store is untouched), the second is accepted and
\* stored, and with it the loop ends: 2 attempts, 1 accepted record, https://b.example,
\* and never a third fetch.
StopsAtTarget ==
    ScenarioAB
        => /\ Len(fetched) = attempts
           /\ attempts <= 2
           /\ (attempts = 1
                  => unique_sites_collected = 0 /\ sites = sites0 /\ collected_sites = <<>>)
           /\ (attempts = 2
                  => /\ unique_sites_collected = 1
                     /\ Len(collected_sites) = 1
                     /\ collected_sites[1][1] = "https://b.example"
                     /\ UrlsOf(sites) = {"https://a.example", "https://b.example"}
                     /\ ~LoopGuard(unique_sites_collected, attempts, target, max_attempts))
           /\ (pc # "loop" => attempts = 2)
           /\ (pc = "loop" /\ attempts < 2
                  => LoopGuard(unique_sites_collected, attempts, target, max_attempts))

\* The scenario's loop has ended while the adapter still had a third result to give.
StopsAtTargetThirdUnfetched ==
    ScenarioAB /\ pc \in {"webhook", "hn_show"} /\ script # <<>> /\ Head(script).ok

\* How many results of q brought a url that was neither in urls nor brought by an
\* earlier result of q.
RECURSIVE FreshCount(_, _)
FreshCount(q, urls) ==
    IF q = <<>> THEN 0
    ELSE IF Head(q).ok /\ Head(q).url \notin urls
         THEN 1 + FreshCount(Tail(q), urls \cup {Head(q).url})
         ELSE FreshCount(Tail(q), urls)

runv == <<sites, cfgv, loopv, enhv, obsv, source, collected_sites, sites_512kb_english,
          webhook, script, fetched>>

\* No collector runs; the table is empty.
Detached ==
    /\ variant = "app"
    /\ url_exists_func = TRUE
    /\ add_url_to_db_func = TRUE
    /\ target = 1
    /\ max_attempts = 3
    /\ sites = <<>>
    /\ sites0 = <<>>
    /\ mocked = FALSE
    /\ script = <<>>
    /\ NoRun
    /\ runs = <<>>

\* ------------------------------------------------------------------ get_hackernews_stories_by_type

\* The calls get_hackernews_stories_by_type(story_type, count, url_exists_func): the
\* listing the API answers with, and the urls url_exists_func (if given) reports.
HnCalls ==
    [story_type : {"show", "best"},
     listing : {[ok |-> FALSE, items |-> <<>>]}
                   \cup {[ok |-> TRUE, items |-> q] :
                            q \in SeqsUpTo(HnItemsOver({"https://a.example"}), MaxIds)},
     count : 1..MaxIds,
     hasFunc : BOOLEAN,
     exists : {{}, {"https://a.example"}}]

InitHN ==
    /\ Detached
    /\ inp \in {c \in HnCalls : c.hasFunc \/ c.exists = {}}
    /\ out = None

CallHN ==
    /\ pc = "new"
    /\ out' = Some(get_hackernews_stories_by_type(inp.story_type, inp.listing, inp.count,
                                                  inp.hasFunc, inp.exists))
    /\ pc' = "returned"
    /\ UNCHANGED <<runv, runs, inp>>

SpecHN == InitHN /\ [][CallHN]_vars

\* An item the function can return as it is: a title and an external url.
HnComplete(item) == item.ok /\ Truthy(item.url) /\ Truthy(item.title)

\* C6 (no url, synthesized url): of a listing of 3 ids whose second item has a title
\* and no "url" field, the other two being complete, a request for 3 stories with no
\* existence function returns 3 stories, the second with the url of the item's own
\* page, https://news.ycombinator.com/item?id=<id>.
HnUrlLessItemSynthesized ==
    (/\ pc = "returned"
     /\ inp.story_type = "show"
     /\ inp.listing.ok
     /\ Len(inp.listing.items) = 3
     /\ inp.count = 3
     /\ ~inp.hasFunc
     /\ HnComplete(inp.listing.items[1])
     /\ HnComplete(inp.listing.items[3])
     /\ inp.listing.items[2].ok
     /\ inp.listing.items[2].url = None
     /\ Truthy(inp.listing.items[2].title))
        => /\ Len(out[1]) = 3
           /\ out[1][2][1] = HnItemUrls[2]

\* ------------------------------------------------------------------ get_random_linkwarden_links

\* A bookmark of the answer of GET /api/v1/links: its "url" and "title", each absent
\* or null (None), empty, or a text.
LinkwardenLinks ==
    [url : {None, Some(""), Some("https://a.example"), Some("https://b.example")},
     title : {None, Some(""), Some("Bookmark")}]

\* valid_links = [link for link in all_links if link.get("url") and link.get("title")]
ValidLinks(links) == SelectSeq(links, LAMBDA l : Truthy(l.url) /\ Truthy(l.title))

\* random.sample(valid_links, count), as the positions it draws: count positions of
\* a list of n, none of them twice.
SamplesWithRepetition(n, k) == [1..k -> 1..n]

Samples(n, k) == {q \in [1..k -> 1..n] : Injective(q)}

\* The draws open to a call: one of the samples when there are more valid bookmarks
\* than wanted, and no draw otherwise.
Draws(call) ==
    IF call.ok /\ Len(ValidLinks(call.links)) > call.count
    THEN Samples(Len(ValidLinks(call.links)), call.count)
    ELSE {<<>>}

\* get_random_linkwarden_links(api_url, api_key, count, url_exists_func) on the
\* answer [ok, links] of the API, with the draw of random.sample; hasFunc says
\* whether url_exists_func is given and exists which urls it reports.
get_random_linkwarden_links(call, exists, draw) ==
    IF ~call.ok THEN <<>>
    ELSE LET valid_links == ValidLinks(call.links)
             selected_links ==
                 IF Len(valid_links) <= call.count THEN valid_links
                 ELSE [k \in 1..call.count |-> valid_links[draw[k]]]
             kept == SelectSeq(selected_links,
                               LAMBDA l : ~call.hasFunc \/ l.url[1] \notin exists)
         IN  [k \in 1..Len(kept) |-> <<kept[k].url[1], kept[k].title[1], "linkwarden">>]

LinkwardenCalls ==
    [ok : BOOLEAN,
     links : SeqsUpTo(LinkwardenLinks, MaxLinks),
     count : 0..MaxLinks,
     hasFunc : BOOLEAN]

InitLinkwarden ==
    /\ Detached
    /\ inp \in {c \in LinkwardenCalls : c.ok \/ (c.links = <<>> /\ ~c.hasFunc)}
    /\ out = None

CallLinkwarden ==
    /\ pc = "new"
    /\ \E draw \in Draws(inp) :
          out' = Some(get_random_linkwarden_links(inp, {"https://a.example"}, draw))
    /\ pc' = "returned"
    /\ UNCHANGED <<runv, runs, inp>>

SpecLinkwarden == InitLinkwarden /\ [][CallLinkwarden]_vars

\* The positions of the bookmarks that have both a url and a title.
ValidPositions(links) ==
    {i \in 1..Len(links) : Truthy(links[i].url) /\ Truthy(links[i].title)}

\* C7 (bookmarks): a call with no existence function, answered with V valid bookmarks,
\* returns min(V, count) entries; they are the (url, title) of valid bookmarks at
\* pairwise different positions of the answer, so a bookmark without url or title
\* never appears; and when V <= count they are all the valid bookmarks in the
\* answer's order.
LinkwardenMinOfValidAndCount ==
    (pc = "returned" /\ inp.ok /\ ~inp.hasFunc)
        => LET result == out[1]
               valid == ValidPositions(inp.links)
               V == Cardinality(valid)
           IN  /\ Len(result) = Min(V, inp.count)
               /\ \E f \in [1..Len(result) -> valid] :
                     /\ Injective(f)
                     /\ \A k \in 1..Len(result) :
                           result[k] = <<inp.links[f[k]].url[1], inp.links[f[k]].title[1],
                                         "linkwarden">>
                     /\ (V <= inp.count
                            => \A j, k \in 1..Len(result) : j < k => f[j] < f[k])

\* A call has sampled: more valid bookmarks than the several wanted, and a bookmark
\* without a url or a title next to them.
LinkwardenSampled ==
    /\ pc = "returned"
    /\ inp.ok
    /\ ~inp.hasFunc
    /\ inp.count >= 1
    /\ Cardinality(ValidPositions(inp.links)) > inp.count
    /\ Cardinality(ValidPositions(inp.links)) < Len(inp.links)
    /\ Len(out[1]) = inp.count

\* ------------------------------------------------------------------ titles in the notification and the report

\* A title is a sequence of characters.  The titles taken are a run of "a" followed
\* by a few characters of TitleChars, so that they reach across the length at which
\* send_discord_webhook shortens a title.
TitleChars == {"a", "[", "]", "*", "_", "\\"}

Pad(n) == [i \in 1..n |-> "a"]

Titles == {Pad(n) \o tail : n \in 0..MaxPad, tail \in SeqsUpTo(TitleChars, MaxTail)}

\* if len(clean_title) > 50: clean_title = clean_title[:47] + "..."
TitleLimit == 50
TitleKeep == 47

\* str.replace(ch, "\\" + ch)
RECURSIVE Replace(_, _)
Replace(s, ch) ==
    IF s = <<>> THEN <<>>
    ELSE (IF Head(s) = ch THEN <<"\\", ch>> ELSE <<Head(s)>>) \o Replace(Tail(s), ch)

\* clean_title of send_discord_webhook (app.py): the title as the message shows it.
clean_title(title) ==
    LET replaced == Replace(Replace(Replace(Replace(title, "["), "]"), "*"), "_")
    IN  IF Len(replaced) > TitleLimit
        THEN SubSeq(replaced, 1, TitleKeep) \o <<".", ".", ".">>
        ELSE replaced

\* The title inside f"- [{title}]({url})\n" of the generate_*_markdown functions.
markdown_title(title) == title

InitTitles ==
    /\ Detached
    /\ inp \in Titles
    /\ out = None

\* A site with the title is collected: its line of the notification message and
\* its line of the markdown report.
EmitTitle ==
    /\ pc = "new"
    /\ out' = Some([notification |-> clean_title(inp), report |-> markdown_title(inp)])
    /\ pc' = "returned"
    /\ UNCHANGED <<runv, runs, inp>>

SpecTitles == InitTitles /\ [][EmitTitle]_vars

\* e, from position j, shows the characters of title t from position i in their order,
\* each of [ ] * _ with a backslash put before it that is not a character of t; whole
\* says that e has to show t to its end.
RECURSIVE EscapedFrom(_, _, _, _, _)
EscapedFrom(t, i, e, j, whole) ==
    IF j > Len(e) THEN whole => i > Len(t)
    ELSE IF i > Len(t) THEN FALSE
    ELSE IF t[i] \in {"[", "]", "*", "_"}
         THEN /\ e[j] = "\\"
              /\ IF j = Len(e) THEN ~whole
                 ELSE e[j + 1] = t[i] /\ EscapedFrom(t, i + 1, e, j + 2, whole)
         ELSE e[j] = t[i] /\ EscapedFrom(t, i + 1, e, j + 1, whole)

\* e is title t escaped, or a beginning of t escaped and "..." after it.
EscapedEmission(t, e) ==
    \/ EscapedFrom(t, 1, e, 1, TRUE)
    \/ /\ Len(e) >= 3
       /\ SubSeq(e, Len(e) - 2, Len(e)) = <<".", ".", ".">>
       /\ EscapedFrom(t, 1, SubSeq(e, 1, Len(e) - 3), 1, FALSE)

\* C8 (escaping): in the title of the notification message and in the title of the
\* markdown report, shortened or not, every [ ] * _ of the title has a backslash
\* before it that is not part of the title.
TitlesEscaped ==
    pc = "returned"
        => /\ EscapedEmission(inp, out[1].notification)
           /\ EscapedEmission(inp, out[1].report)

\* ------------------------------------------------------------------ check_512kb_site_is_english

\* str.lower() on the characters a lang attribute is made of here
LowerKeepsCase(ch) == ch

Lower(ch) ==
    CASE ch = "E" -> "e"
      [] ch = "N" -> "n"
      [] ch = "F" -> "f"
      [] OTHER -> ch

\* lang_attr.lower().startswith("en")
LowerStartsWithEn(lang_attr) ==
    Len(lang_attr) >= 2 /\ Lower(lang_attr[1]) = "e" /\ Lower(lang_attr[2]) = "n"

\* detect_english_content(page, title): the value returned and, in their order, the
\* checks that were run.  Of the title the function uses the number of words of
\* english_title_words it contains, of the sampled text the number of its words and
\* of the words of common_english_words in it, of the navigation links the number of
\* words of english_nav_words in them.  An exception of a page query ends the
\* function with True.
detect_english_content_pessimistic(page) ==
    IF page.fault = "query"
    THEN [value |-> FALSE, consulted |-> <<"lang">>]
    ELSE IF page.html /\ page.lang # None /\ page.lang # Some(<<>>)
            /\ LowerStartsWithEn(page.lang[1])
    THEN [value |-> TRUE, consulted |-> <<"lang">>]
    ELSE IF page.title_english_words >= 2
    THEN [value |-> TRUE, consulted |-> <<"lang", "title">>]
    ELSE IF /\ page.total_words > 0
            /\ page.english_word_count * 100 >= 20 * Min(page.total_words, 50)
    THEN [value |-> TRUE, consulted |-> <<"lang", "title", "content">>]
    ELSE [value |-> page.nav_english_count >= 2,
          consulted |-> <<"lang", "title", "content", "nav">>]

detect_english_content(page) ==
    IF page.fault = "query"
    THEN [value |-> TRUE, consulted |-> <<"lang">>]
    ELSE IF page.html /\ page.lang # None /\ page.lang # Some(<<>>)
            /\ LowerStartsWithEn(page.lang[1])
    THEN [value |-> TRUE, consulted |-> <<"lang">>]
    ELSE IF page.title_english_words >= 2
    THEN [value |-> TRUE, consulted |-> <<"lang", "title">>]
    ELSE IF /\ page.total_words > 0
            /\ page.english_word_count * 100 >= 20 * Min(page.total_words, 50)
    THEN [value |-> TRUE, consulted |-> <<"lang", "title", "content">>]
    ELSE [value |-> page.nav_english_count >= 2,
          consulted |-> <<"lang", "title", "content", "nav">>]

\* check_512kb_site_is_english(url, title) on the page the browser gets: an
\* exception of page.goto gives (False, None, "error").
check_512kb_site_is_english(url, title, page) ==
    IF page.fault = "goto"
    THEN [is_english |-> FALSE, posts_md |-> None, status |-> "error", consulted |-> <<>>]
    ELSE LET d == detect_english_content(page)
         IN  IF d.value
             THEN [is_english |-> TRUE, posts_md |-> Some(<<title, url>>),
                   status |-> "english_site", consulted |-> d.consulted]
             ELSE [is_english |-> FALSE, posts_md |-> None, status |-> "non_english",
                   consulted |-> d.consulted]

\* The pages: whether loading or querying the page raises, whether it has an html
\* element, the element's lang attribute (None: absent), and what the later checks
\* count on it.
Pages ==
    [fault : {"none", "goto", "query"},
     html : BOOLEAN,
     lang : {None} \cup {Some(q) : q \in SeqsUpTo({"e", "E", "n", "N", "f", "-"}, MaxLang)},
     title_english_words : 0..2,
     total_words : {0, 5, 60},
     english_word_count : {0, 1, 9, 10},
     nav_english_count : 0..2]

InitClassify ==
    /\ Detached
    /\ inp \in {p \in Pages : /\ p.english_word_count <= p.total_words
                              /\ (p.html \/ p.lang = None)
                              /\ (p.fault = "goto" => p.title_english_words = 0)}
    /\ out = None

CallClassify ==
    /\ pc = "new"
    /\ out' = Some(check_512kb_site_is_english("https://a.example", "A", inp))
    /\ pc' = "returned"
    /\ UNCHANGED <<runv, runs, inp>>

\* add_url_to_db_func(url, title, "512kb.club") and update_site_english_status(url,
\* is_english, status, posts_md), as the 512kb loop stores what the classifier
\* returned.
StoreClassification ==
    /\ pc = "returned"
    /\ sites' = update_site_english_status(
                    add_url_to_db(sites, "https://a.example", "A", Some("512kb.club")).db,
                    "https://a.example", out[1].is_english, out[1].status, out[1].posts_md)
    /\ pc' = "stored"
    /\ UNCHANGED <<cfgv, loopv, enhv, obsv, iov, source, collected_sites,
                   sites_512kb_english, webhook, script, fetched>>

NextClassify == CallClassify \/ StoreClassification

SpecClassify == InitClassify /\ [][NextClassify]_vars

\* The lang attribute of the page's html element begins with e or E and then n or N.
LangBeginsWithEn(page) ==
    /\ page.html
    /\ page.lang # None
    /\ Len(page.lang[1]) >= 2
    /\ page.lang[1][1] \in {"e", "E"}
    /\ page.lang[1][2] \in {"n", "N"}

\* C9 (lang attribute decides): a page that was loaded and whose html lang attribute
\* begins with "en" in any case is classified English, status english_site, whatever
\* its title, text and navigation hold, and none of the title, content and
\* navigation checks is run.
LangEnIsEnglish ==
    (pc = "returned" /\ inp.fault # "goto" /\ LangBeginsWithEn(inp))
        => /\ out[1].is_english
           /\ out[1].status = "english_site"
           /\ out[1].consulted = <<"lang">>

\* A page with an upper-case EN lang attribute and nothing else English about it
\* has been classified.
LangEnUpperCaseClassified ==
    /\ pc = "returned"
    /\ inp.fault = "none"
    /\ LangBeginsWithEn(inp)
    /\ inp.lang[1][1] = "E"
    /\ inp.lang[1][2] = "N"
    /\ inp.title_english_words = 0
    /\ inp.english_word_count = 0
    /\ inp.nav_english_count = 0
    /\ out[1].is_english

\* ------------------------------------------------------------------ url_exists and add_url_to_db called in turn

\* The urls asked for and inserted: one more than the collectors meet.
OracleUrls == Urls \cup {AllUrls[NumUrls + 1]}

InitOracle ==
    /\ Detached
    /\ inp = None
    /\ out = None

\* url_exists(url).  inp is the url asked for and how many calls in a row have asked
\* for it, out the value returned; a third call in a row is not taken.
CallUrlExists(url) ==
    /\ pc \in {"new", "exists", "added"}
    /\ LET n == IF pc = "exists" /\ inp[1] = url THEN inp[2] + 1 ELSE 1
           e == url_exists(sites, url)
       IN  /\ n <= 2
           /\ inp' = <<url, n>>
           /\ out' = Some(e.ret)
           /\ sites' = e.db
    /\ pc' = "exists"
    /\ UNCHANGED <<cfgv, loopv, enhv, obsv, source, collected_sites, sites_512kb_english,
                   webhook, script, fetched, runs>>

\* add_url_to_db(url, title, source); out is whether IntegrityError was raised.
CallAddUrl(url, src) ==
    /\ pc \in {"new", "exists", "added"}
    /\ LET r == add_url_to_db(sites, url, TitleOf(url), src)
       IN  /\ inp' = <<url, 0>>
           /\ out' = Some(r.raised)
           /\ sites' = r.db
    /\ pc' = "added"
    /\ UNCHANGED <<cfgv, loopv, enhv, obsv, source, collected_sites, sites_512kb_english,
                   webhook, script, fetched, runs>>

NextOracle ==
    \/ \E url \in OracleUrls : CallUrlExists(url)
    \/ \E url \in OracleUrls : \E src \in {Some("512kb.club"), Some("indieblog.page")} :
          CallAddUrl(url, src)

SpecOracle == InitOracle /\ [][NextOracle]_vars

\* C10 (idempotent existence check): a call of url_exists leaves the table as it is,
\* and when it follows a call of url_exists for the same url with nothing called in
\* between, it returns what that call returned.
ExistenceCheckIdempotent ==
    [][pc' = "exists" => (sites' = sites /\ (inp'[2] = 2 => out' = out))]_vars

\* url_exists has been called twice in a row for a url, once the table held several
\* rows, and has found the url.
ExistenceCheckedTwice ==
    pc = "exists" /\ inp[2] = 2 /\ out = Some(TRUE) /\ Len(sites) >= 2

\* ------------------------------------------------------------------ failures inside a run

\* C11 (a rejected insert is local): in a collector that was given its existence and
\* insert functions, an insert that the UNIQUE constraint rejects never ends the
\* run; IntegrityError is caught where it is raised and the rest of the candidates
\* and sources follow.
RejectedInsertNeverAborts == (url_exists_func /\ add_url_to_db_func) => pc # "raised"

\* C13 (accepted means stored): in a collector that was given its existence and
\* insert functions, every candidate that a loop has counted or listed as accepted
\* (in collected_sites, in the Hacker News lists, in the posts of the indie-blog
\* loop) is in the table.
AcceptedAreStored ==
    (url_exists_func /\ add_url_to_db_func /\ pc # "raised")
        => LET accepted == collected_sites \o show_stories \o new_stories \o indie_posts
           IN  \A k \in 1..Len(accepted) : InStore(sites, accepted[k][1])

\* C12 (a failed fetch is local): a loop body whose fetch raises (here the patched
\* adapter) adds one to attempts, accepts and stores nothing, and leaves the run in
\* its loop at the same source, from which the later attempts and sources follow.
FailedFetchCountsAndContinues ==
    [][(Len(fetched') = Len(fetched) + 1 /\ ~fetched'[Len(fetched')].ok)
           => /\ attempts' = attempts + 1
              /\ sites' = sites
              /\ unique_sites_collected' = unique_sites_collected
              /\ collected_sites' = collected_sites
              /\ pc' = "loop"
              /\ source' = source]_vars

\* The second source of app.py has run its loop, every fetch of it failing, after the
\* first source had used up its budget without accepting a site.
FailedFetchesLaterSourceRun ==
    /\ variant = "app"
    /\ pc = "webhook"
    /\ source = 2
    /\ attempts = max_attempts
    /\ Len(fetched) = max_attempts
    /\ \A k \in 1..Len(fetched) : ~fetched[k].ok
    /\ collected_sites = <<>>

LanguageFieldsSet(row) ==
    \/ row.has_blog # None
    \/ row.blog_status # None
    \/ row.blog_posts_md # None
    \/ row.last_blog_check # None

\* C15: the language flag, status, post cache and time of last check are non-null
\* only on rows whose source is 512kb.club; rows of every other source keep all four
\* null, through collector runs and analysis passes alike.
LanguageFieldsOnly512kb ==
    \A i \in 1..Len(sites) :
        LanguageFieldsSet(sites[i]) => sites[i].source = Some("512kb.club")

\* An analysis pass has classified a 512kb.club row of a table that also holds a row
\* of another source.
LanguageFieldsMixedTable ==
    /\ pc = "analyzed"
    /\ \E i, j \in 1..Len(sites) :
          /\ sites[i].source = Some("512kb.club")
          /\ sites[i].has_blog # None
          /\ sites[j].source # Some("512kb.club")
          /\ ~LanguageFieldsSet(sites[j])

\* C16 as stated: no step of a collection run or of an analysis pass deletes a row or
\* changes the url, title, source or capture_date of a row the table holds; a row the
\* table holds changes only in the step that stores the classification of its own
\* url, every other row staying as it was.
RecordsImmutable ==
    [][/\ Len(sites') >= Len(sites)
       /\ \A i \in 1..Len(sites) :
             /\ sites'[i].url = sites[i].url
             /\ sites'[i].title = sites[i].title
             /\ sites'[i].source = sites[i].source
             /\ sites'[i].capture_date = sites[i].capture_date
             /\ (sites'[i] # sites[i] =>
                    /\ pc = "analysis"
                    /\ todo # <<>>
                    /\ sites[i].url = Head(todo)[1])]_vars

\* C16, amended: no step deletes a row or changes the url, title or capture_date of
\* a row; the source of a row changes only when the run of app.py begins on a table
\* without the source column, from null to 512kb.club and nothing else of the row
\* with it; apart from that a row changes only in the step that stores the
\* classification of its own url, every other row staying as it was.
RecordsImmutableButSourceBackfill ==
    [][/\ Len(sites') >= Len(sites)
       /\ \A i \in 1..Len(sites) :
             /\ sites'[i].url = sites[i].url
             /\ sites'[i].title = sites[i].title
             /\ sites'[i].capture_date = sites[i].capture_date
             /\ (sites'[i].source # sites[i].source =>
                    /\ pc = "new"
                    /\ variant = "app"
                    /\ sites'[i] = [sites[i] EXCEPT !.source = Some("512kb.club")]
                    /\ sites[i].source = None)
             /\ (sites'[i] # sites[i] /\ sites'[i].source = sites[i].source =>
                    /\ pc = "analysis"
                    /\ todo # <<>>
                    /\ sites[i].url = Head(todo)[1])]_vars

\* A pass has stored the classification of the first row of a table of several rows,
\* and is about to store the next one.
RecordsOneRowUpdated ==
    /\ pc = "analysis"
    /\ todo # <<>>
    /\ Len(sites) >= 2
    /\ sites0[1].has_blog = None
    /\ sites[1].has_blog # None
    /\ sites[2] = sites0[2]

\* C17: once the language flag of a row is set (by the collection loop or by an
\* analysis pass, the error result included), no later step writes that row again,
\* and no analysis pass selects it.
LanguageFlagWrittenOnce ==
    [][\A i \in 1..Len(sites) :
          sites[i].has_blog # None =>
              /\ sites'[i] = sites[i]
              /\ (pc' = "analysis" =>
                     \A k \in 1..Len(todo') : todo'[k][1] # sites[i].url)]_vars

\* A pass has just made its selection from a table that holds a row classified with
\* the error status next to an unclassified one: only the latter is selected.
LanguageFlagSetRowSkipped ==
    /\ pc = "analysis"
    /\ sites = sites0
    /\ Len(todo) = 1
    /\ \E i, j \in 1..Len(sites) :
          /\ sites[i].has_blog # None
          /\ sites[i].blog_status = Some("error")
          /\ sites[j].has_blog = None
          /\ sites[j].url = todo[1][1]

\* ------------------------------------------------------------------ two runs on one table

\* Two processes run collect_ten_unique_sites of app.py against one database.  Each
\* call of url_exists and of add_url_to_db opens its own connection and commits, so
\* the calls of the two runs interleave; the body of the while loop is cut between
\* the existence check and the insert.  runs[p] holds the locals of run p: its
\* position, the index of its source, the loop's counters, collected_sites, the
\* candidate it holds between check and insert, and whether an IntegrityError has
\* been caught by its except clause.
ConcurrentRuns == {1, 2}

RunLocals ==
    [pc |-> "loop", source |-> 1, unique_sites_collected |-> 0, attempts |-> 0,
     collected_sites |-> <<>>, cand |-> Failure, rejected |-> FALSE]

InitConcurrent ==
    /\ variant = "app"
    /\ url_exists_func = TRUE
    /\ add_url_to_db_func = TRUE
    /\ target = 1
    /\ max_attempts = BudgetRatio("app") * 1
    /\ sites = <<>>
    /\ sites0 = <<>>
    /\ mocked = FALSE
    /\ script = <<>>
    /\ NoRun
    /\ inp = None
    /\ out = None
    /\ runs = [p \in ConcurrentRuns |-> RunLocals]

\* The first half of a loop body of run p: the fetch and url_exists(url).  A fetch
\* that raises and a url the table holds end the body (attempts += 1); a url the
\* table does not hold is kept for the insert.
RunCheck(p, cand) ==
    /\ runs[p].pc = "loop"
    /\ LoopGuard(runs[p].unique_sites_collected, runs[p].attempts, target, max_attempts)
    /\ LET e == url_exists(sites, cand.url)
       IN  /\ sites' = IF cand.ok THEN e.db ELSE sites
           /\ runs' = [runs EXCEPT ![p] =
                         IF cand.ok /\ ~e.ret
                         THEN [@ EXCEPT !.pc = "insert", !.cand = cand]
                         ELSE [@ EXCEPT !.attempts = AttemptsAfter(@, cand.ok)]]
    /\ UNCHANGED <<cfgv, loopv, enhv, obsv, source, collected_sites, sites_512kb_english,
                   webhook, script, fetched, pc, inp, out>>

\* The second half: add_url_to_db(url, title, source), then the append and the count,
\* or the except clause when the insert raises; attempts += 1 either way.
RunInsert(p) ==
    /\ runs[p].pc = "insert"
    /\ LET c == runs[p].cand
           r == add_url_to_db(sites, c.url, c.title, Sources("app")[runs[p].source])
       IN  /\ sites' = r.db
           /\ runs' = [runs EXCEPT ![p] =
                         [@ EXCEPT !.pc = "loop",
                                   !.cand = Failure,
                                   !.collected_sites =
                                       IF r.raised THEN @
                                       ELSE Append(@, <<c.url, c.title,
                                                        Sources("app")[runs[p].source]>>),
                                   !.unique_sites_collected = CollectedAfter(@, ~r.raised),
                                   !.attempts = AttemptsAfter(@, TRUE),
                                   !.rejected = (@ \/ r.raised)]]
    /\ UNCHANGED <<cfgv, loopv, enhv, obsv, source, collected_sites, sites_512kb_english,
                   webhook, script, fetched, pc, inp, out>>

\* The while loop of run p has ended: its next source, or the end of the run.
RunLoopExit(p) ==
    /\ runs[p].pc = "loop"
    /\ ~LoopGuard(runs[p].unique_sites_collected, runs[p].attempts, target, max_attempts)
    /\ runs' = [runs EXCEPT ![p] =
                  IF @.source < Len(Sources("app"))
                  THEN [@ EXCEPT !.source = @ + 1, !.unique_sites_collected = 0,
                                 !.attempts = 0]
                  ELSE [@ EXCEPT !.pc = "done"]]
    /\ UNCHANGED <<sites, cfgv, loopv, enhv, obsv, source, collected_sites,
                   sites_512kb_english, webhook, script, fetched, pc, inp, out>>

NextConcurrent ==
    \/ \E p \in ConcurrentRuns : \E cand \in FetchResults : RunCheck(p, cand)
    \/ \E p \in ConcurrentRuns : RunInsert(p)
    \/ \E p \in ConcurrentRuns : RunLoopExit(p)

SpecConcurrent == InitConcurrent /\ [][NextConcurrent]_vars

\* Each run is a process of its own that the operating system keeps scheduling: a
\* step a run can take is taken in the end.
RunStep(p) ==
    \/ \E cand \in FetchResults : RunCheck(p, cand)
    \/ RunInsert(p)
    \/ RunLoopExit(p)

FairSpecConcurrent ==
    SpecConcurrent /\ \A p \in ConcurrentRuns : WF_vars(RunStep(p))

\* The urls run p has accepted.
AcceptedBy(p) ==
    {runs[p].collected_sites[k][1] : k \in 1..Len(runs[p].collected_sites)}

\* C18: of two runs interleaved on one table, a run that comes to insert a url the
\* other has inserted since its existence check is refused by the UNIQUE constraint:
\* the table and its collected_sites stay as they are, nothing is counted, and the run
\* is back in its loop with one more attempt spent; a run that comes first inserts
\* one row and accepts the url.  The table never holds a url twice, no url is
\* accepted by both runs, and both runs come to their end.
ConcurrentInsertOnce ==
    /\ <>(\A p \in ConcurrentRuns : runs[p].pc = "done")
    /\ [](/\ \A i, j \in 1..Len(sites) : sites[i].url = sites[j].url => i = j
          /\ AcceptedBy(1) \cap AcceptedBy(2) = {}
          /\ \A p \in ConcurrentRuns :
                /\ runs[p].pc \in {"loop", "insert", "done"}
                /\ \A u \in AcceptedBy(p) : InStore(sites, u))
    /\ [][\A p \in ConcurrentRuns :
             runs[p].pc = "insert" /\ runs'[p] # runs[p] =>
                 /\ runs'[p].pc = "loop"
                 /\ runs'[p].attempts = runs[p].attempts + 1
                 /\ IF InStore(sites, runs[p].cand.url)
                    THEN /\ sites' = sites
                         /\ runs'[p].collected_sites = runs[p].collected_sites
                         /\ runs'[p].unique_sites_collected =
                                runs[p].unique_sites_collected
                    ELSE /\ Len(sites') = Len(sites) + 1
                         /\ sites'[Len(sites')].url = runs[p].cand.url
                         /\ AcceptedBy(p)' = AcceptedBy(p) \cup {runs[p].cand.url}
                         /\ runs'[p].unique_sites_collected =
                                runs[p].unique_sites_collected + 1]_vars

\* Both runs have ended; run 2 lost a race for a url that run 1 accepted, its
\* IntegrityError was caught, and it went on to accept another url.
ConcurrentRaceLostAndCompleted ==
    /\ runs # <<>>
    /\ runs[1].pc = "done"
    /\ runs[2].pc = "done"
    /\ runs[2].rejected
    /\ ~runs[1].rejected
    /\ AcceptedBy(1) # {}
    /\ AcceptedBy(2) # {}
    /\ Len(sites) = Cardinality(AcceptedBy(1)) + Cardinality(AcceptedBy(2))

\* ------------------------------------------------------------------ the notification

\* C19: the step that sends the notification ends the run whatever the post's
\* outcome: a failed post is a returned value (the run is over, not aborted), no
\* second post follows it, and the table and the list of collected sites are what
\* they were before the post, every collected site still in the table.
NotificationBestEffort ==
    /\ [](webhook = "failed" =>
             /\ pc = "idle"
             /\ \A k \in 1..Len(collected_sites) : InStore(sites, collected_sites[k][1]))
    /\ [][pc = "webhook" =>
             /\ pc' = "idle"
             /\ sites' = sites
             /\ collected_sites' = collected_sites
             /\ webhook' \in (IF collected_sites = <<>> THEN {"none"}
                              ELSE {"sent", "failed"})]_vars

\* A run that stored sites from its last source has ended with a failed post.
NotificationFailedRecordsKept ==
    /\ pc = "idle"
    /\ webhook = "failed"
    /\ Len(collected_sites) >= 2
    /\ Len(sites) > Len(sites0)

\* ------------------------------------------------------------------ how far get_hackernews_stories_by_type reads

\* The positions among the first n ids of the call's listing whose item is valid and
\* new: the item request succeeds, the story has its "url" and "title" keys and a
\* title that is not empty, and url_exists_func (if given) does not report its url.
HnValidNew(call, n) ==
    {i \in 1..Min(n, Len(call.listing.items)) :
        LET item == call.listing.items[i]
            url == IF Truthy(item.url) THEN item.url[1] ELSE HnItemUrls[i]
        IN  /\ item.ok
            /\ item.url # None
            /\ Truthy(item.title)
            /\ (~call.hasFunc \/ url \notin call.exists)}

\* What every call returns: never more than count stories, never a url that
\* url_exists_func reports.
HnResultWithinCount ==
    /\ Len(out[1]) <= inp.count
    /\ inp.hasFunc => \A k \in 1..Len(out[1]) : out[1][k][1] \notin inp.exists

\* C20 as stated: the ids are read until count valid new stories are gathered or the
\* whole listing is exhausted: a listing with at least count valid new items gives
\* exactly count stories.
HnReadsWholeListing ==
    (pc = "returned" /\ inp.story_type = "show" /\ inp.listing.ok) =>
        /\ HnResultWithinCount
        /\ (Cardinality(HnValidNew(inp, Len(inp.listing.items))) >= inp.count =>
                Len(out[1]) = inp.count)

\* C20, amended: the ids are read until count valid new stories are gathered or the
\* first 2 * count ids of the listing are exhausted: when these hold at least count
\* valid new items exactly count stories are returned, and otherwise as many as they
\* hold.
HnReadsFirstTwiceCount ==
    (pc = "returned" /\ inp.story_type = "show" /\ inp.listing.ok) =>
        /\ HnResultWithinCount
        /\ Len(out[1]) = Min(inp.count, Cardinality(HnValidNew(inp, 2 * inp.count)))

\* One story was asked for of a listing of three ids: the first item's url is
\* reported present, the second is valid and new and is the story returned (under
\* the url of its own page), the third is not read.
HnStoppedAtCount ==
    /\ pc = "returned"
    /\ inp.story_type = "show"
    /\ inp.listing.ok
    /\ inp.count = 1
    /\ inp.hasFunc
    /\ Len(inp.listing.items) = 3
    /\ HnValidNew(inp, 3) = {2, 3}
    /\ HnComplete(inp.listing.items[1])
    /\ out[1] = <<<<HnItemUrls[2], "Story", Some("hackernews-show")>>>>

\* ------------------------------------------------------------------ the feed builder (build-rss/app.py)

\* The tables the collectors of cos_random_db.py can have written: rows of distinct
\* urls, inserted one after the other by add_url_to_db, each under one of the two
\* source tags.
RECURSIVE TableOf(_)
TableOf(q) ==
    IF q = <<>> THEN <<>>
    ELSE add_url_to_db(TableOf(SubSeq(q, 1, Len(q) - 1)),
                       q[Len(q)][1], TitleOf(q[Len(q)][1]), q[Len(q)][2]).db

FeedUrls == {AllUrls[i] : i \in 1..(NumUrls + 1)}

FeedTables ==
    {TableOf(q) : q \in {s \in SeqsUpTo(FeedUrls \X {Some("512kb.club"),
                                                     Some("indieblog.page")},
                                        NumUrls + 1) :
                             \A i, j \in 1..Len(s) : s[i][1] = s[j][1] => i = j}}

\* sqlite3.register_adapter(datetime, adapt_datetime): a datetime is stored as the
\* text of dt.isoformat().
adapt_datetime(dt) == [type |-> "str", text |-> dt]

\* What sqlite3 hands a registered converter for a column value: the value's bytes.
ColumnBytes(stored) == [type |-> "bytes", text |-> stored.text]

\* datetime.fromisoformat(s): TypeError unless s is a str.
fromisoformat(s) ==
    IF s.type = "str" THEN [raised |-> FALSE, value |-> s.text]
    ELSE [raised |-> TRUE, value |-> 0]

\* sqlite3.register_converter("TIMESTAMP", convert_datetime), under
\* detect_types=PARSE_DECLTYPES: called for every non-null value of a column
\* declared TIMESTAMP, which capture_date is.
convert_datetime(s) == fromisoformat(s)

\* ORDER BY capture_date DESC.
RECURSIVE OrderByCaptureDateDesc(_)
OrderByCaptureDateDesc(db) ==
    IF db = <<>> THEN <<>>
    ELSE LET m == CHOOSE i \in 1..Len(db) :
                      \A j \in 1..Len(db) : db[j].capture_date <= db[i].capture_date
             rest == [k \in 1..(Len(db) - 1) |-> IF k < m THEN db[k] ELSE db[k + 1]]
         IN  <<db[m]>> \o OrderByCaptureDateDesc(rest)

\* get_sites_from_db(): SELECT url, title, source, capture_date FROM sites ORDER BY
\* capture_date DESC; fetchall() converts the capture_date of each row.
get_sites_from_db(db) ==
    LET rows == OrderByCaptureDateDesc(db)
        conv == [k \in 1..Len(rows) |->
                    convert_datetime(ColumnBytes(adapt_datetime(rows[k].capture_date)))]
    IN  IF \E k \in 1..Len(rows) : conv[k].raised
        THEN [raised |-> TRUE, rows |-> <<>>]
        ELSE [raised |-> FALSE,
              rows |-> [k \in 1..Len(rows) |->
                           <<rows[k].url, rows[k].title, rows[k].source, conv[k].value>>]]

\* generate_rss_feed(sites): one rfeed.Item for each row, in the rows' order.
generate_rss_feed(rows) ==
    [k \in 1..Len(rows) |->
        [title |-> rows[k][2],
         link |-> rows[k][1],
         description |-> <<"Discovered from", rows[k][3], "on", rows[k][4]>>,
         guid |-> rows[k][1],
         pubDate |-> rows[k][4]]]

InitFeed ==
    /\ variant = "app"
    /\ url_exists_func = TRUE
    /\ add_url_to_db_func = TRUE
    /\ target = 1
    /\ max_attempts = 3
    /\ sites \in FeedTables
    /\ sites0 = sites
    /\ mocked = FALSE
    /\ script = <<>>
    /\ NoRun
    /\ runs = <<>>
    /\ inp = None
    /\ out = None

\* process_db_to_rss, after the download: sites = get_sites_from_db().  The call is
\* in no try: an exception ends the builder.
FeedGetSites ==
    /\ pc = "new"
    /\ LET r == get_sites_from_db(sites)
       IN  IF r.raised
           THEN pc' = "raised" /\ inp' = inp
           ELSE pc' = "read" /\ inp' = Some(r.rows)
    /\ UNCHANGED <<runv, runs, out>>

\* rss_content = generate_rss_feed(sites)
FeedGenerate ==
    /\ pc = "read"
    /\ out' = Some(generate_rss_feed(inp[1]))
    /\ pc' = "fed"
    /\ UNCHANGED <<runv, runs, inp>>

NextFeed == FeedGetSites \/ FeedGenerate

SpecFeed == InitFeed /\ [][NextFeed]_vars

\* C21 (feed output): when the builder has ended, the feed has one entry for each row
\* of the table, in the order of capture_date from the latest to the earliest; the
\* guid and the link of an entry are the url of its row and its pubDate the row's
\* capture_date; no two entries have the same guid.
FeedOneEntryPerRecord ==
    pc \in {"fed", "raised"} =>
        /\ pc = "fed"
        /\ Len(out[1]) = Len(sites)
        /\ \A k \in 1..Len(sites) :
              LET row == sites[Len(sites) + 1 - k]
              IN  /\ out[1][k].guid = row.url
                  /\ out[1][k].link = row.url
                  /\ out[1][k].pubDate = row.capture_date
        /\ \A k \in 1..(Len(sites) - 1) : out[1][k].pubDate >= out[1][k + 1].pubDate
        /\ \A j, k \in 1..Len(sites) : out[1][j].guid = out[1][k].guid => j = k

\* ------------------------------------------------------------------ the browsing page (webapp/app)

\* The source tags the routes ask for, in the order of their calls, and a tag no
\* route asks for.
KnownTags == <<"hackernews-new", "hackernews-show", "indieblog.page", "512kb.club">>

RowTags == KnownTags \o <<"linkwarden">>

\* The limit of each call of get_entries_by_source, route by route.
RouteLimits(route) ==
    IF route = "index" THEN <<5, 5, 10, 10>> ELSE <<3, 3, 5, 5>>

\* Tables of up to MaxRows rows under the tags of RowTags (rows of one tag together:
\* the queries do not depend on the order of the rows).
BrowseTables ==
    {TableOf([i \in 1..Len(t) |-> <<AllUrls[i], Some(RowTags[t[i]])>>]) :
        t \in {s \in SeqsUpTo(1..Len(RowTags), MaxRows) :
                  \A i \in 1..(Len(s) - 1) : s[i] <= s[i + 1]}}

\* The dictionary get_entries_by_source makes of the row of id i.
Entry(db, i) ==
    [id |-> i, url |-> db[i].url, title |-> db[i].title, source |-> db[i].source,
     capture_date |-> db[i].capture_date]

\* SELECT ... FROM sites ORDER BY RANDOM() LIMIT ? without the WHERE clause.
get_entries_by_source_any_source(db, tag, limit, query_fails) ==
    IF query_fails THEN {<<>>}
    ELSE {[k \in 1..Len(q) |-> Entry(db, q[k])] :
             q \in {s \in [1..Min(limit, Len(db)) -> 1..Len(db)] : Injective(s)}}

\* get_entries_by_source(source, limit), once get_db() has returned: the lists the
\* call can return.  SELECT ... FROM sites WHERE source = ? ORDER BY RANDOM() LIMIT ?
\* gives the matching rows in any order, cut at the limit; an exception of the query
\* is caught and [] returned.
get_entries_by_source(db, tag, limit, query_fails) ==
    IF query_fails THEN {<<>>}
    ELSE LET match == {i \in 1..Len(db) : db[i].source = Some(tag)}
             n == Min(limit, Cardinality(match))
         IN  {[k \in 1..n |-> Entry(db, q[k])] :
                 q \in {s \in [1..n -> match] : Injective(s)}}

\* The requests: the route, whether get_db() fails to open the database (it logs and
\* raises again), and the calls whose query raises (the first, the last, both or
\* none).
BrowseRequests ==
    [route : {"index", "api"}, connect_fails : BOOLEAN,
     query_fails : SUBSET {1, 4}]

\* The answers of a route.  lists are the four results of get_entries_by_source;
\* the page renders hackernews_new + hackernews_show and the other two, the JSON
\* endpoint the four in a row.  get_db() is called outside the try of
\* get_entries_by_source: when it raises, index() raises (Flask answers 500) and
\* api_random_entries() answers {"entries": [], "error": ...}.
Responses(db, req) ==
    IF req.connect_fails
    THEN {[status |-> IF req.route = "index" THEN 500 ELSE 200,
           error |-> TRUE, lists |-> <<>>, body |-> <<>>]}
    ELSE LET L(k) == get_entries_by_source(db, KnownTags[k], RouteLimits(req.route)[k],
                                           k \in req.query_fails)
         IN  {[status |-> 200, error |-> FALSE, lists |-> <<a, b, c, d>>,
               body |-> IF req.route = "index" THEN <<a \o b, c, d>>
                        ELSE <<a \o b \o c \o d>>] :
                 a \in L(1), b \in L(2), c \in L(3), d \in L(4)}

InitBrowse ==
    /\ variant = "app"
    /\ url_exists_func = TRUE
    /\ add_url_to_db_func = TRUE
    /\ target = 1
    /\ max_attempts = 3
    /\ sites \in BrowseTables
    /\ sites0 = sites
    /\ mocked = FALSE
    /\ script = <<>>
    /\ NoRun
    /\ runs = <<>>
    /\ inp \in BrowseRequests
    /\ out = None

\* index() and api_random_entries()
Serve ==
    /\ pc = "new"
    /\ \E resp \in Responses(sites, inp) : out' = Some(resp)
    /\ pc' = "served"
    /\ UNCHANGED <<runv, runs, inp>>

SpecBrowse == InitBrowse /\ [][Serve]_vars

\* What every answer that carries lists satisfies: the list of each tag has at most
\* the route's limit for the tag, only rows of the table with that tag, no row twice,
\* and is empty when the tag's query raised; the table is as it was.
BrowseLists ==
    /\ sites = sites0
    /\ \A k \in 1..Len(out[1].lists) :
          LET l == out[1].lists[k]
          IN  /\ Len(l) <= RouteLimits(inp.route)[k]
              /\ \A j \in 1..Len(l) :
                    /\ l[j].source = Some(KnownTags[k])
                    /\ l[j].id \in 1..Len(sites)
                    /\ l[j] = Entry(sites, l[j].id)
              /\ \A i, j \in 1..Len(l) : l[i].id = l[j].id => i = j
              /\ (k \in inp.query_fails => l = <<>>)

\* C22 as stated: every request is answered, without an error response, with one
\* list for each known tag, within the limits, of the requested tag, without
\* repetition, empty for a tag whose store access failed; the table is unchanged.
BrowseNeverErrorResponse ==
    pc = "served" =>
        /\ BrowseLists
        /\ out[1].status = 200
        /\ ~out[1].error
        /\ Len(out[1].lists) = Len(KnownTags)

\* C22, amended: as stated when the database opens (an exception of a query gives an
\* empty list for its tag); when get_db() fails, the page is answered with an error
\* response and the JSON endpoint with no entries and an error field; the table is
\* unchanged in every case.
BrowseErrorOnlyWhenConnectFails ==
    pc = "served" =>
        /\ BrowseLists
        /\ IF inp.connect_fails
           THEN /\ out[1].error
                /\ out[1].body = <<>>
                /\ out[1].status = IF inp.route = "index" THEN 500 ELSE 200
           ELSE /\ out[1].status = 200
                /\ ~out[1].error
                /\ Len(out[1].lists) = Len(KnownTags)

\* The JSON endpoint has answered from a table with more hackernews-new rows than its
\* limit for the tag and a row of a tag no route asks for: the limit's number of
\* entries is returned.
BrowseLimitReached ==
    /\ pc = "served"
    /\ inp.route = "api"
    /\ ~inp.connect_fails
    /\ inp.query_fails = {}
    /\ Len(out[1].lists[1]) = RouteLimits("api")[1]
    /\ Cardinality({i \in 1..Len(sites) : sites[i].source = Some(KnownTags[1])})
           > RouteLimits("api")[1]
    /\ \E i \in 1..Len(sites) : sites[i].source = Some("linkwarden")

\* ------------------------------------------------------------------ schema evolution (random_sites.db)

\* The columns of CREATE TABLE sites in random_site.py and in cos_random_db.py, the
\* columns database_migration.py adds, and the full schema it creates.
RandomSiteColumns == <<"id", "url", "title", "capture_date">>

CosColumns == <<"id", "url", "title", "source", "capture_date">>

LanguageColumns == <<"has_blog", "blog_status", "blog_posts_md", "last_blog_check">>

ExpectedColumns == CosColumns \o LanguageColumns

Has(columns, name) == \E i \in 1..Len(columns) : columns[i] = name

\* ALTER TABLE sites ADD COLUMN name ..., for each of names that columns lacks.
RECURSIVE AddMissing(_, _)
AddMissing(columns, names) ==
    IF names = <<>> THEN columns
    ELSE AddMissing(IF Has(columns, Head(names)) THEN columns
                    ELSE Append(columns, Head(names)),
                    Tail(names))

\* UPDATE sites SET source = '512kb.club' WHERE source IS NULL
BackfillSource(db) ==
    [i \in 1..Len(db) |->
        IF db[i].source = None THEN [db[i] EXCEPT !.source = Some("512kb.club")]
        ELSE db[i]]

\* A database is the columns of table sites (None: no table) and its rows; the
\* value of a column a row's table lacks is None.
\* init_database() of cos_random_db.py.
init_database_cos(schema, db) ==
    IF schema = None THEN [schema |-> Some(CosColumns), db |-> <<>>]
    ELSE IF ~Has(schema[1], "source")
    THEN [schema |-> Some(Append(schema[1], "source")), db |-> BackfillSource(db)]
    ELSE [schema |-> schema, db |-> db]

\* migrate_database_schema(): without a table the first ALTER TABLE raises and the
\* function returns False.
migrate_database_schema(schema, db) ==
    IF schema = None THEN [schema |-> schema, db |-> db]
    ELSE [schema |-> Some(AddMissing(schema[1], LanguageColumns)), db |-> db]

\* init_database_enhanced() without the migration of the source column.
init_database_enhanced_no_source(schema, db) ==
    IF schema = None THEN [schema |-> Some(ExpectedColumns), db |-> <<>>]
    ELSE [schema |-> Some(AddMissing(schema[1], LanguageColumns)), db |-> db]

\* init_database_enhanced()
init_database_enhanced(schema, db) ==
    IF schema = None THEN [schema |-> Some(ExpectedColumns), db |-> <<>>]
    ELSE IF ~Has(schema[1], "source")
    THEN [schema |-> Some(AddMissing(Append(schema[1], "source"), LanguageColumns)),
          db |-> BackfillSource(db)]
    ELSE [schema |-> Some(AddMissing(schema[1], LanguageColumns)), db |-> db]

\* The databases random_site.py and cos_random_db.py leave: no table, or their
\* table with the rows they inserted.
InitSchema ==
    /\ variant = "app"
    /\ url_exists_func = TRUE
    /\ add_url_to_db_func = TRUE
    /\ target = 1
    /\ max_attempts = 3
    /\ \/ inp = None /\ sites = <<>>
       \/ inp = Some(RandomSiteColumns) /\ sites \in Stores(None)
       \/ inp = Some(CosColumns) /\ sites \in FeedTables
    /\ sites0 = sites
    /\ mocked = FALSE
    /\ script = <<>>
    /\ NoRun
    /\ runs = <<>>
    /\ out = None

\* Before the enhanced collector is deployed: a run of cos_random_db.py ...
SchemaCosInit ==
    /\ pc = "new"
    /\ LET r == init_database_cos(inp, sites)
       IN  inp' = r.schema /\ sites' = r.db
    /\ UNCHANGED <<cfgv, loopv, enhv, obsv, source, collected_sites, sites_512kb_english,
                   webhook, script, fetched, runs, pc, out>>

\* ... or of the migration script.
SchemaMigrate ==
    /\ pc = "new"
    /\ LET r == migrate_database_schema(inp, sites)
       IN  inp' = r.schema /\ sites' = r.db
    /\ UNCHANGED <<cfgv, loopv, enhv, obsv, source, collected_sites, sites_512kb_english,
                   webhook, script, fetched, runs, pc, out>>

\* init_database_enhanced(), a first and a second time; out keeps the database the
\* first call came upon.
SchemaInitEnhanced ==
    /\ pc \in {"new", "initialized"}
    /\ LET r == init_database_enhanced(inp, sites)
       IN  inp' = r.schema /\ sites' = r.db
    /\ out' = IF pc = "new" THEN Some([schema |-> inp, db |-> sites]) ELSE out
    /\ pc' = IF pc = "new" THEN "initialized" ELSE "initialized again"
    /\ UNCHANGED <<cfgv, loopv, enhv, obsv, source, collected_sites, sites_512kb_english,
                   webhook, script, fetched, runs>>

NextSchema == SchemaCosInit \/ SchemaMigrate \/ SchemaInitEnhanced

SpecSchema == InitSchema /\ [][NextSchema]_vars

\* C23: a call of init_database_enhanced leaves a table with every expected column,
\* the columns it found still there under their names and at their places, and the
\* rows it found still there with their url, title and capture_date; a second call
\* changes nothing.
SchemaAdditiveIdempotent ==
    [][pc' \in {"initialized", "initialized again"} /\ pc' # pc =>
          /\ inp' # None
          /\ \A k \in 1..Len(ExpectedColumns) : Has(inp'[1], ExpectedColumns[k])
          /\ (inp # None =>
                 /\ Len(inp'[1]) >= Len(inp[1])
                 /\ \A k \in 1..Len(inp[1]) : inp'[1][k] = inp[1][k])
          /\ Len(sites') = Len(sites)
          /\ \A i \in 1..Len(sites) :
                /\ sites'[i].url = sites[i].url
                /\ sites'[i].title = sites[i].title
                /\ sites'[i].capture_date = sites[i].capture_date
          /\ (pc = "initialized" => inp' = inp /\ sites' = sites)]_vars

\* init_database_enhanced has been called twice on a table of several rows that had
\* neither the source column nor the language columns.
SchemaEvolvedFromOldest ==
    /\ pc = "initialized again"
    /\ out # None
    /\ out[1].schema = Some(RandomSiteColumns)
    /\ Len(sites) >= 2
    /\ inp = Some(RandomSiteColumns \o <<"source">> \o LanguageColumns)

\* ------------------------------------------------------------------ one attempt of the 512kb loop, call by call

\* The try body of the 512kb while loop of collect_unique_sites_enhanced, one call at
\* a time.  inp is what get_random_site() gave, out what the classifier returned
\* (None until it is called).
InitAttempt ==
    /\ variant = "enhanced"
    /\ url_exists_func \in BOOLEAN
    /\ add_url_to_db_func \in BOOLEAN
    /\ target = 1
    /\ max_attempts = BudgetRatio("enhanced") * 1
    /\ sites \in Stores(Some("512kb.club"))
    /\ sites0 = sites
    /\ mocked = FALSE
    /\ script = <<>>
    /\ NoRun
    /\ runs = <<>>
    /\ inp \in FetchResults
    /\ out = None

\* url, title = get_random_site(); if url_exists_func is None or not
\* url_exists_func(url)
AttemptCheck ==
    /\ pc = "new"
    /\ LET e == url_exists(sites, inp.url)
       IN  /\ sites' = IF inp.ok /\ url_exists_func THEN e.db ELSE sites
           /\ pc' = IF ~inp.ok THEN "caught"
                    ELSE IF url_exists_func /\ e.ret THEN "skipped"
                    ELSE "is new"
    /\ UNCHANGED <<cfgv, loopv, enhv, obsv, source, collected_sites, sites_512kb_english,
                   webhook, script, fetched, runs, inp, out>>

\* is_english, posts_md, status = check_512kb_site_is_english(url, title)
AttemptClassify(cls) ==
    /\ pc = "is new"
    /\ out' = Some(cls)
    /\ pc' = "classified"
    /\ UNCHANGED <<runv, runs, inp>>

\* if add_url_to_db_func: add_url_to_db_func(url, title, "512kb.club")
AttemptInsert ==
    /\ pc = "classified"
    /\ LET r == add_url_to_db(sites, inp.url, inp.title, Some("512kb.club"))
       IN  IF add_url_to_db_func
           THEN /\ sites' = r.db
                /\ pc' = IF r.raised THEN "caught" ELSE "inserted"
           ELSE /\ sites' = sites
                /\ pc' = "accepted"
    /\ UNCHANGED <<cfgv, loopv, enhv, obsv, source, collected_sites, sites_512kb_english,
                   webhook, script, fetched, runs, inp, out>>

\* update_site_english_status(url, is_english, status, posts_md)
AttemptUpdate ==
    /\ pc = "inserted"
    /\ sites' = update_site_english_status(sites, inp.url, out[1].is_english,
                                           out[1].status, out[1].posts_md)
    /\ pc' = "accepted"
    /\ UNCHANGED <<cfgv, loopv, enhv, obsv, source, collected_sites, sites_512kb_english,
                   webhook, script, fetched, runs, inp, out>>

NextAttempt ==
    \/ AttemptCheck
    \/ \E cls \in ClassifierResults(inp.url, inp.title) : AttemptClassify(cls)
    \/ AttemptInsert
    \/ AttemptUpdate

SpecAttempt == InitAttempt /\ [][NextAttempt]_vars

\* C24 (order within an attempt): in a collector that was given its two functions,
\* the classifier has been called on a candidate only if the candidate's row is in the
\* table; a row carries a classification only if the classifier has been called; and
\* the classifier is not called on a candidate the existence check reported present.
RecordCreatedBeforeClassifier ==
    /\ (url_exists_func /\ add_url_to_db_func /\ out # None => InStore(sites, inp.url))
    /\ (\A i \in 1..Len(sites) : sites[i].has_blog # None =>
            out # None /\ sites[i].url = inp.url)
    /\ (url_exists_func /\ InStore(sites0, inp.url) => out = None)

\* ------------------------------------------------------------------ rows classified with the error status

\* C25 (error rows are revisited): when a pass of analyze_existing_sites_for_english
\* makes its selection, every 512kb.club row whose classification ended with the
\* status "error" is among the selected sites, so that the pass classifies it again.
ErrorRecordsSelectedAgain ==
    [][pc # "analysis" /\ pc' = "analysis" =>
          \A i \in 1..Len(sites) :
              (sites[i].source = Some("512kb.club") /\ sites[i].blog_status = Some("error"))
                  => \E k \in 1..Len(todo') : todo'[k][1] = sites[i].url]_vars

\* ------------------------------------------------------------------ the collector on object storage

\* cos_random_db.py keeps random_sites.db in a bucket: collect_ten_unique_sites
\* downloads it, collects on the local file, uploads the file and notifies.  Here
\* sites is the local file, out the object in the bucket (None: no such object) and
\* inp the urls of the notifications that completed runs have sent.  A behaviour is a
\* sequence of runs, any of which can be killed in its loop; sites0 is the object's
\* table when the current run began.
CosSources == <<Some("512kb.club"), Some("indieblog.page")>>

\* What no step of cos_random_db.py touches.
cosv == <<cfgv, enhv, sites_512kb_english, iters, inserts, fresh, all_dup, script,
          fetched, runs>>

InitCos ==
    /\ variant = "cos"
    /\ url_exists_func = TRUE
    /\ add_url_to_db_func = TRUE
    /\ target = 1
    /\ max_attempts = 3
    /\ sites = <<>>
    /\ sites0 = <<>>
    /\ mocked = FALSE
    /\ script = <<>>
    /\ NoRun
    /\ runs = <<>>
    /\ inp = {}
    /\ out \in {None} \cup {Some(t) : t \in Stores(Some("512kb.club"))}

\* How download_db_from_cos can end.  "ok": head_object and download_fileobj succeed.
\* "absent": head_object raises ClientError (the object is missing, or any other error
\* response of the service), the local file is opened for appending.  "failed": an
\* exception before open(local_file_path, 'wb').  "cut": download_fileobj raises after
\* open(..., 'wb') truncated the local file and before a byte was written.  "partial":
\* download_fileobj raises after some bytes were written.
DownloadOutcomes(remote) ==
    IF remote = None THEN {"absent", "failed"}
    ELSE {"ok", "absent", "failed", "cut", "partial"}

\* random_sites.db after download_db_from_cos; None is a file sqlite3 cannot read.
download_db_from_cos(local, remote, outcome) ==
    CASE outcome = "ok" -> Some(remote[1])
      [] outcome = "cut" -> Some(<<>>)
      [] outcome = "partial" -> None
      [] OTHER -> local

\* The head of collect_ten_unique_sites: download_db_from_cos(), whose result only
\* chooses a log line, and init_database(), which is the init_database of app.py.  The job's container can be a new one
\* (no local file) or the one of the run before; pc = "corrupt" is a local file that a
\* cut download left unreadable, on which init_database raises DatabaseError.
CosStart(new_container, outcome) ==
    /\ pc \in {"new", "corrupt"}
    /\ outcome \in DownloadOutcomes(out)
    /\ LET before == IF new_container THEN Some(<<>>)
                     ELSE IF pc = "corrupt" THEN None ELSE Some(sites)
           local == download_db_from_cos(before, out, outcome)
       IN  /\ pc' = IF local = None THEN "corrupt" ELSE "loop"
           /\ sites' = IF local = None THEN <<>> ELSE init_database("app", local[1])
    /\ sites0' = IF out = None THEN <<>> ELSE out[1]
    /\ source' = 1
    /\ unique_sites_collected' = 0
    /\ attempts' = 0
    /\ collected_sites' = <<>>
    /\ webhook' = "none"
    /\ UNCHANGED <<cosv, inp, out>>

\* One body of the while loop of cos_random_db.py.
CosIteration(cand) ==
    /\ pc = "loop"
    /\ LoopGuard(unique_sites_collected, attempts, target, max_attempts)
    /\ LET accepted == cand.ok /\ ~url_exists(sites, cand.url).ret
       IN  /\ sites' = IF accepted
                       THEN add_url_to_db(sites, cand.url, cand.title, CosSources[source]).db
                       ELSE sites
           /\ collected_sites' = IF accepted
                                 THEN Append(collected_sites,
                                             <<cand.url, cand.title, CosSources[source]>>)
                                 ELSE collected_sites
           /\ unique_sites_collected' = CollectedAfter(unique_sites_collected, accepted)
    /\ attempts' = AttemptsAfter(attempts, cand.ok)
    /\ UNCHANGED <<cosv, inp, out, pc, source, sites0, webhook>>

\* The while loop of a source ends: the next source, or the upload.
CosLoopExit ==
    /\ pc = "loop"
    /\ ~LoopGuard(unique_sites_collected, attempts, target, max_attempts)
    /\ IF source < Len(CosSources)
       THEN /\ source' = source + 1
            /\ unique_sites_collected' = 0
            /\ attempts' = 0
            /\ pc' = pc
       ELSE /\ pc' = "upload"
            /\ UNCHANGED <<source, unique_sites_collected, attempts>>
    /\ UNCHANGED <<cosv, inp, out, sites, sites0, collected_sites, webhook>>

\* The process is killed in its loop: the rows it inserted are in the local file only.
CosKill ==
    /\ pc = "loop"
    /\ pc' = "new"
    /\ collected_sites' = <<>>
    /\ UNCHANGED <<cosv, inp, out, sites, sites0, source, unique_sites_collected,
                   attempts, webhook>>

\* upload_db_to_cos(): upload_fileobj replaces the object by the local file, or
\* raises, which is logged; the result is not read.
CosUpload(ok) ==
    /\ pc = "upload"
    /\ out' = IF ok THEN Some(sites) ELSE out
    /\ pc' = "notify"
    /\ UNCHANGED <<cosv, inp, sites, sites0, source, unique_sites_collected, attempts,
                   collected_sites, webhook>>

\* if collected_sites: send_discord_webhook(collected_sites); the run is complete.
CosNotify(ok) ==
    /\ pc = "notify"
    /\ webhook' = IF collected_sites = <<>> THEN "none" ELSE IF ok THEN "sent" ELSE "failed"
    /\ inp' = IF collected_sites # <<>> /\ ok
              THEN inp \cup {collected_sites[k][1] : k \in 1..Len(collected_sites)}
              ELSE inp
    /\ collected_sites' = <<>>
    /\ pc' = "new"
    /\ UNCHANGED <<cosv, out, sites, sites0, source, unique_sites_collected, attempts>>

NextCos ==
    \/ \E new_container \in BOOLEAN :
          \E outcome \in {"ok", "absent", "failed", "cut", "partial"} :
              CosStart(new_container, outcome)
    \/ \E cand \in FetchResults : CosIteration(cand)
    \/ CosLoopExit
    \/ CosKill
    \/ \E ok \in BOOLEAN : CosUpload(ok)
    \/ \E ok \in BOOLEAN : CosNotify(ok)

SpecCos == InitCos /\ [][NextCos]_vars

\* C26 (no url is reported twice across runs): no url that the notification of a
\* completed run held is accepted by a later run, whatever runs were killed and
\* whatever uploads and downloads failed in between.
NoUrlReportedTwice ==
    \A k \in 1..Len(collected_sites) : collected_sites[k][1] \notin inp

\* C27 (storage sync loses no record): every row of the object in the bucket stays in
\* the object, over every step of every run, also of a run whose download failed and
\* which went on with the local file.
RemoteCopyKeepsRecords ==
    [][out # None =>
          /\ out' # None
          /\ \A i \in 1..Len(out[1]) :
                \E j \in 1..Len(out'[1]) : out'[1][j].url = out[1][i].url]_vars

\* ------------------------------------------------------------------ the indie-blog batch

\* get_reduced_indieblog_posts(count, url_exists_func) as the enhanced collector
\* reaches it, the 512kb and Hacker News phases done: count is half the 512kb target
\* (5 and 10 in the code), the table is what the earlier phases and runs left.
InitIndie ==
    /\ variant = "enhanced"
    /\ url_exists_func \in BOOLEAN
    /\ add_url_to_db_func \in BOOLEAN
    /\ target \in {2 * count : count \in 1..MaxCount}
    /\ max_attempts = BudgetRatio("enhanced") * target
    /\ sites \in Stores(Some("512kb.club"))
    /\ sites0 = sites
    /\ mocked = FALSE
    /\ script = <<>>
    /\ pc = "indie"
    /\ source = 1
    /\ unique_sites_collected = 0
    /\ attempts = 0
    /\ collected_sites = <<>>
    /\ sites_512kb_english = <<>>
    /\ show_stories = <<>>
    /\ new_stories = <<>>
    /\ indie_posts = <<>>
    /\ indie_attempts = 0
    /\ todo = <<>>
    /\ webhook = "none"
    /\ iters = 0
    /\ inserts = 0
    /\ fresh = 0
    /\ all_dup = TRUE
    /\ fetched = <<>>
    /\ inp = None
    /\ out = None
    /\ runs = <<>>

NextIndie ==
    \/ \E cand \in FetchResults : IndieIteration(cand)
    \/ IndieReturn
    \/ BatchInsert
    \/ IndieDone

SpecIndie == InitIndie /\ [][NextIndie]_vars

\* C28 (the batch of get_reduced_indieblog_posts): the function makes at most 3 * count
\* attempts, and the posts it returns are at most count, hold no url that the
\* existence function reported present, and hold no url twice.
IndieBatchBoundedNewDistinct ==
    /\ (pc = "indie" => indie_attempts <= 3 * BatchCount(target))
    /\ (pc = "indie_insert" /\ (add_url_to_db_func => todo = indie_posts) =>
           /\ Len(indie_posts) <= BatchCount(target)
           /\ (url_exists_func =>
                  \A k \in 1..Len(indie_posts) : ~InStore(sites, indie_posts[k][1]))
           /\ \A k, l \in 1..Len(indie_posts) :
                  indie_posts[k][1] = indie_posts[l][1] => k = l)

\* ------------------------------------------------------------------ what a run notifies

\* The last n rows of the table, as the (url, title, source) tuples of collected_sites.
LastRows(db, n) ==
    [k \in 1..n |-> <<db[Len(db) - n + k].url, db[Len(db) - n + k].title,
                      db[Len(db) - n + k].source>>]

\* C29 (a run notifies exactly what it inserted): the run starts with an empty list and
\* inserts nothing when it starts; every step of its loops appends a row to the table
\* exactly when it appends a tuple to collected_sites, and changes no earlier row; so
\* the list handed to send_discord_webhook is the rows the run inserted, with their
\* url, title and source tag; and the notification is sent exactly when the list is
\* not empty.
NotifiedExactlyInserted ==
    /\ [](pc = "webhook" =>
             /\ Len(collected_sites) <= Len(sites)
             /\ collected_sites = LastRows(sites, Len(collected_sites)))
    /\ [][pc = "new" => collected_sites' = <<>> /\ Len(sites') = Len(sites)]_vars
    /\ [][pc = "loop" /\ variant # "enhanced" =>
             /\ Len(sites') - Len(sites) = Len(collected_sites') - Len(collected_sites)
             /\ SubSeq(sites', 1, Len(sites)) = sites]_vars
    /\ [][pc = "webhook" =>
             /\ collected_sites' = collected_sites
             /\ sites' = sites
             /\ (webhook' = "none" <=> collected_sites = <<>>)]_vars

\* A run of app.py on a table of one row has inserted one row, of its second source,
\* and its notification, of that one site, was sent.
NotifiedTheOneInserted ==
    /\ variant = "app"
    /\ pc = "idle"
    /\ webhook = "sent"
    /\ Len(sites) = 2
    /\ collected_sites = <<<<sites[2].url, sites[2].title, Some("indieblog.page")>>>>

\* ------------------------------------------------------------------ the 512kb section of the report

\* generate_simple_512kb_markdown(sites): the heading and one line "- [title](url)"
\* for each site of the list, in the list's order.
generate_simple_512kb_markdown(list) ==
    IF list = <<>> THEN <<"## 512KB Club Sites", "*No English sites found*">>
    ELSE <<"## 512KB Club Sites">> \o
         [k \in 1..Len(list) |-> <<"- [", list[k][2], "](", list[k][1], ")">>]

\* if sites_512kb_english: markdown_sections.append(kb_markdown.rstrip()); no section
\* for an empty list.
KbSection(list) ==
    IF list = <<>> THEN None ELSE Some(generate_simple_512kb_markdown(list))

\* The rows the 512kb loop has appended to the table it started on.
RowsOfRun == SubSeq(sites, Len(sites0) + 1, Len(sites))

\* C30 (persisted and counted whatever the classification): in the enhanced collector
\* given an insert function, every fetched candidate that was not in the table has
\* been inserted and counted, with any of the three statuses in its row; the accepted
\* candidates are the rows of the run, in order; and once the loop has ended, the
\* 512kb section of the report is the section of those rows of the run that were
\* classified English, in their order (no section if there is none).
EnhancedPersistsWhateverClassification ==
    variant = "enhanced" /\ add_url_to_db_func /\ pc \in {"loop", "hn_show"} =>
        /\ inserts = fresh
        /\ unique_sites_collected = fresh
        /\ Len(RowsOfRun) = fresh
        /\ collected_sites = LastRows(sites, fresh)
        /\ \A k \in 1..Len(RowsOfRun) :
              RowsOfRun[k].blog_status \in
                  {Some("english_site"), Some("non_english"), Some("error")}
        /\ (pc = "hn_show" =>
               KbSection(sites_512kb_english) =
                   LET eng == SelectSeq(RowsOfRun, LAMBDA row : row.has_blog = Some(TRUE))
                   IN  KbSection([k \in 1..Len(eng) |->
                                     <<eng[k].url, eng[k].title, eng[k].source>>]))

\* The loop has ended at its target of two: the first accepted site was classified
\* non-English, the second English, both are in the table and only the second is in
\* the report.
EnhancedNonEnglishPersisted ==
    /\ variant = "enhanced"
    /\ add_url_to_db_func
    /\ pc = "hn_show"
    /\ unique_sites_collected = 2
    /\ Len(RowsOfRun) = 2
    /\ RowsOfRun[1].blog_status = Some("non_english")
    /\ RowsOfRun[2].blog_status = Some("english_site")
    /\ sites_512kb_english = <<collected_sites[2]>>

====
